---------------------------- MODULE Spec2Model ----------------------------
(***************************************************************************)
(* A model of the configuration loader of segmentio/conf: Loader.Load, the *)
(* two-pass argument parse of Loader.load, the sources (function, file,    *)
(* environment) and LoadWith.                                              *)
(*                                                                         *)
(* Go strings are sequences of one-character strings, so that the flag     *)
(* parser and the environment source work on the characters as the code    *)
(* does: <<"-","A","=","1">> is the argument -A=1.                          *)
(***************************************************************************)
EXTENDS Integers, Sequences, FiniteSets, TLC

VARIABLES
    ld,       \* the Loader: [name, args, commands, sources]
    cfgNil,   \* TRUE when Load is called with cfg == nil
    rules,    \* the fields of cfg tagged validate:"nonzero"
    fs,       \* what readFile finds at the path FilePath
    cfg0,     \* the value of *cfg when Load is called
    cfg,      \* *cfg, the caller's configuration struct
    shadow,   \* v2, the shadow value the merge writes to
    path,     \* path[i]: the path field of source i when it is a fileSource
    pc,       \* position in Load / LoadWith
    idx,      \* index of the next source in the loop of Loader.load
    cmd,      \* returned command
    args,     \* returned leftover arguments
    err,      \* returned error
    exit,     \* outcome of LoadWith: "none", "return", "exit0", "exit1"
    trace     \* the calls made so far: parses, source loads, readFile, unmarshal

vars == <<ld, cfgNil, rules, fs, cfg0, cfg, shadow, path, pc, idx, cmd, args,
          err, exit, trace>>

-----------------------------------------------------------------------------
(* Bounds of the model. *)

MaxVal == 2       \* integer values are 0..MaxVal
MaxArgs == 2      \* length of Loader.Args
MaxSources == 2   \* length of Loader.Sources
MaxEnv == 2       \* length of the environment list

-----------------------------------------------------------------------------
(* Strings. *)

Digits == <<"0", "1", "2", "3", "4", "5", "6", "7", "8", "9">>

Lowers == <<"a", "b", "c", "d", "e", "f", "g", "h", "i", "j", "k", "l", "m",
            "n", "o", "p", "q", "r", "s", "t", "u", "v", "w", "x", "y", "z">>

Uppers == <<"A", "B", "C", "D", "E", "F", "G", "H", "I", "J", "K", "L", "M",
            "N", "O", "P", "Q", "R", "S", "T", "U", "V", "W", "X", "Y", "Z">>

IndexIn(c, s) == IF \E i \in 1..Len(s) : s[i] = c
                 THEN CHOOSE i \in 1..Len(s) : s[i] = c
                 ELSE 0

isDigit(c) == IndexIn(c, Digits) # 0
isLower(c) == IndexIn(c, Lowers) # 0
isUpper(c) == IndexIn(c, Uppers) # 0

ToUpperChar(c) == IF isLower(c) THEN Uppers[IndexIn(c, Lowers)] ELSE c

ToUpper(s) == [i \in 1..Len(s) |-> ToUpperChar(s[i])]

HasPrefix(s, p) == Len(s) >= Len(p) /\ SubSeq(s, 1, Len(p)) = p

\* strings.IndexByte, 1-based; 0 when c does not occur in s.
IndexByte(s, c) == IF \E i \in 1..Len(s) : s[i] = c
                   THEN CHOOSE i \in 1..Len(s) :
                            s[i] = c /\ \A j \in 1..(i - 1) : s[j] # c
                   ELSE 0

Drop(s, n) == SubSeq(s, n + 1, Len(s))

DigitChar(n) == Digits[n + 1]


RECURSIVE NatOf(_)
\* The integer a string of digits denotes.
NatOf(s) == IF Len(s) = 0 THEN 0
            ELSE 10 * NatOf(SubSeq(s, 1, Len(s) - 1)) + (IndexIn(s[Len(s)], Digits) - 1)

-----------------------------------------------------------------------------
(* Errors: a kind and the string the message carries.  Nil is Go's nil.    *)

Error(type, arg) == [type |-> type, arg |-> arg]

Nil == Error("nil", <<>>)

ErrHelp == Error("flag: help requested", <<>>)

-----------------------------------------------------------------------------
(* The configuration struct.  Four exported fields:                        *)
(*     A int; B int `conf:"b"`; I int `conf:"-"`; V bool                   *)
(* Load(nil) loads into an empty struct.                                   *)

Field(id, name, tag, kind) == [id |-> id, name |-> name, tag |-> tag, kind |-> kind]

Schema == << Field("A", <<"A">>, <<>>, "int"),
             Field("B", <<"B">>, <<"b">>, "int"),
             Field("I", <<"I">>, <<"-">>, "int"),
             Field("V", <<"V">>, <<>>, "bool") >>

(* The struct of the nested tests, struct{ P *point } with                 *)
(*     type point struct { X int `conf:"x"`; Y int `conf:"y"` }            *)
(* A field of kind "ptr" is a pointer to a point; the struct holds under   *)
(* its id whether the pointer is non-nil, and the fields of the point      *)
(* under the ids of PointFields (zero while the pointer is nil).           *)
PointFields == << Field("Px", <<"X">>, <<"x">>, "int"),
                  Field("Py", <<"Y">>, <<"y">>, "int") >>

PointSchema == << Field("P", <<"P">>, <<>>, "ptr") >>

(* A struct with a slice and a map next to an int, a bool and a point:     *)
(*     A int; V bool; P *point; L []int; M map[int]int                     *)
(* The struct holds the slice as the sequence of its elements and the map  *)
(* as the function from its keys to their elements.                        *)
TwiceSchema == << Field("A", <<"A">>, <<>>, "int"),
                  Field("V", <<"V">>, <<>>, "bool"),
                  Field("P", <<"P">>, <<>>, "ptr"),
                  Field("L", <<"L">>, <<>>, "slice"),
                  Field("M", <<"M">>, <<>>, "map") >>

\* The fields of the struct a field points to.
Elem(f) == IF f.kind = "ptr" THEN PointFields ELSE <<>>

\* The type of the struct Load is given; Load(nil) loads into struct{}.
SchemaOf(nil) == IF nil THEN <<>>
                 ELSE IF "L" \in DOMAIN cfg0 THEN TwiceSchema
                 ELSE IF "P" \in DOMAIN cfg0 THEN PointSchema
                 ELSE Schema

RECURSIVE AllFields(_)
\* The fields of the struct and of the structs its fields point to.
AllFields(schema) ==
    IF Len(schema) = 0 THEN <<>>
    ELSE <<Head(schema)>> \o AllFields(Elem(Head(schema))) \o AllFields(Tail(schema))

FieldIds(schema) == {AllFields(schema)[i].id : i \in 1..Len(AllFields(schema))}

IntIds == {Schema[i].id : i \in {j \in 1..Len(Schema) : Schema[j].kind = "int"}}

Values == 0..MaxVal

ZeroOf(kind) == IF kind \in {"bool", "ptr"} THEN FALSE
                ELSE IF kind \in {"slice", "map"} THEN <<>>
                ELSE 0

KindOf(schema, id) ==
    LET all == AllFields(schema)
    IN  all[CHOOSE i \in 1..Len(all) : all[i].id = id].kind

\* reflect.Zero of the struct type.
ZeroStruct(schema) == [id \in FieldIds(schema) |-> ZeroOf(KindOf(schema, id))]

-----------------------------------------------------------------------------
(* Copies between the caller's struct and its shadow.  The fields of the  *)
(* struct here are ints and bools, which makeType leaves as they are and   *)
(* setValue copies by assignment, and pointers to a struct of ints, which  *)
(* setPtrValue copies as nil or as a new struct with the same fields.      *)

\* setValue(v1, v2): a deep copy of v2 into v1.
setValue(v1, v2) == [id \in DOMAIN v1 |-> v2[id]]

\* makeValue(v1): a fresh value of the shadow type, v1 copied into it.
makeValue(schema, v1) == setValue(ZeroStruct(schema), v1)

-----------------------------------------------------------------------------
(* scanFields: the (key, value handle) pairs the delegate is called with,  *)
(* in declaration order.  A field tagged "-" is skipped; a tag renames.    *)

FieldKey(f, base, sep) ==
    LET name == IF Len(f.tag) # 0 THEN f.tag ELSE f.name
    IN  IF Len(base) # 0 THEN base \o sep \o name ELSE name

RECURSIVE scanFields_Flat(_, _, _)
\* A scan that does not go into the struct a field holds.
scanFields_Flat(schema, base, sep) ==
    IF Len(schema) = 0 THEN <<>>
    ELSE LET f == Head(schema)
             rest == scanFields_Flat(Tail(schema), base, sep)
         IN  IF f.tag = <<"-">> THEN rest
             ELSE <<[key |-> FieldKey(f, base, sep), id |-> f.id, kind |-> f.kind]>>
                  \o rest

RECURSIVE scanFields(_, _, _)
scanFields(schema, base, sep) ==
    IF Len(schema) = 0 THEN <<>>
    ELSE LET f == Head(schema)
             rest == scanFields(Tail(schema), base, sep)
         IN  IF f.tag = <<"-">> THEN rest
             ELSE <<[key |-> FieldKey(f, base, sep), id |-> f.id, kind |-> f.kind]>>
                  \o scanFields(Elem(f), FieldKey(f, base, sep), sep)
                  \o rest

\* A scan that leaves the nil pointers as they are.
Allocated_None(schema, sh) == sh

RECURSIVE Allocated(_, _)
\* The struct after scanFields went over it: the nil pointers it reached
\* point to new zero structs.
Allocated(schema, sh) ==
    IF Len(schema) = 0 THEN sh
    ELSE LET f == Head(schema)
         IN  IF f.tag = <<"-">> THEN Allocated(Tail(schema), sh)
             ELSE IF f.kind = "ptr"
             THEN Allocated(Tail(schema),
                            Allocated(Elem(f), [sh EXCEPT ![f.id] = TRUE]))
             ELSE Allocated(Tail(schema), sh)

-----------------------------------------------------------------------------
(* flagValue.Set: yaml.Unmarshal of the text into the field.  An int field *)
(* takes a string of digits, a bool field true or false, a point a flow    *)
(* mapping such as { 'x': 1, 'y': 2 } whose keys are the names of its      *)
(* fields; any other text is a decode error.                               *)

StrTrue == <<"t", "r", "u", "e">>
StrFalse == <<"f", "a", "l", "s", "e">>

IsNumber(s) == Len(s) > 0 /\ \A i \in 1..Len(s) : isDigit(s[i])

\* The text without its spaces and quotes.
Bare(s) == SelectSeq(s, LAMBDA c : c \notin {" ", "'"})

RECURSIVE Split(_, _)
\* strings.Split of a non-empty s at the character c.
Split(s, c) ==
    LET i == IndexByte(s, c)
    IN  IF i = 0 THEN <<s>>
        ELSE <<SubSeq(s, 1, i - 1)>> \o Split(Drop(s, i), c)

\* The items key:value of the mapping { ... }, or none when s is no mapping.
Items(s) ==
    LET b == Bare(s)
    IN  IF Len(b) >= 2 /\ b[1] = "{" /\ b[Len(b)] = "}"
        THEN (IF Len(b) = 2 THEN <<>> ELSE Split(SubSeq(b, 2, Len(b) - 1), ","))
        ELSE <<>>

ItemKey(it) == SubSeq(it, 1, IndexByte(it, ":") - 1)
ItemValue(it) == Drop(it, IndexByte(it, ":"))

\* The field of the struct that the key of a mapping names, if any.
Named(fields, key) ==
    {k \in 1..Len(fields) : FieldKey(fields[k], <<>>, <<>>) = key}

IsMapping(fields, s) ==
    LET b == Bare(s)
    IN  /\ Len(b) >= 2 /\ b[1] = "{" /\ b[Len(b)] = "}"
        /\ \A n \in 1..Len(Items(s)) :
               LET it == Items(s)[n]
               IN  /\ IndexByte(it, ":") # 0
                   /\ Named(fields, ItemKey(it)) # {}
                   /\ IsNumber(ItemValue(it))

\* The elements of the sequence [ ... ], or none when s is no sequence.
Elements(s) ==
    LET b == Bare(s)
    IN  IF Len(b) > 2 /\ b[1] = "[" /\ b[Len(b)] = "]"
        THEN Split(SubSeq(b, 2, Len(b) - 1), ",")
        ELSE <<>>

IsSequence(s) ==
    LET b == Bare(s)
    IN  /\ Len(b) >= 2 /\ b[1] = "[" /\ b[Len(b)] = "]"
        /\ \A n \in 1..Len(Elements(s)) : IsNumber(Elements(s)[n])

\* A mapping of numbers to numbers.
IsNumberMapping(s) ==
    LET b == Bare(s)
    IN  /\ Len(b) >= 2 /\ b[1] = "{" /\ b[Len(b)] = "}"
        /\ \A n \in 1..Len(Items(s)) :
               LET it == Items(s)[n]
               IN  /\ IndexByte(it, ":") # 0
                   /\ IsNumber(ItemKey(it))
                   /\ IsNumber(ItemValue(it))

Decodes(kind, s) ==
    IF kind = "bool" THEN s \in {StrTrue, StrFalse}
    ELSE IF kind = "ptr" THEN IsMapping(PointFields, s)
    ELSE IF kind = "slice" THEN IsSequence(s)
    ELSE IF kind = "map" THEN IsNumberMapping(s)
    ELSE IsNumber(s)

Decoded(kind, s) ==
    IF kind = "bool" THEN s = StrTrue
    ELSE IF kind = "slice" THEN [n \in 1..Len(Elements(s)) |-> NatOf(Elements(s)[n])]
    ELSE NatOf(s)

\* What the decoder does with the entries of a map it decodes into: it
\* keeps them next to the new ones or it makes the map anew.
Merging == "merge"

Replacing == "replace"

\* The map after the items of a mapping were decoded into it.
SetEntries(old, items) ==
    LET keys == {NatOf(ItemKey(items[n])) : n \in 1..Len(items)}
        last(k) == CHOOSE n \in 1..Len(items) :
                       /\ NatOf(ItemKey(items[n])) = k
                       /\ \A m \in (n + 1)..Len(items) : NatOf(ItemKey(items[m])) # k
        kept == IF fs = Merging THEN DOMAIN old ELSE {}
    IN  [k \in keys \cup kept |-> IF k \in keys THEN NatOf(ItemValue(items[last(k)])) ELSE old[k]]

RECURSIVE SetItems(_, _, _)
\* The struct after the items of a mapping were decoded into its fields.
SetItems(sh, fields, items) ==
    IF Len(items) = 0 THEN sh
    ELSE LET it == Head(items)
             f  == fields[CHOOSE k \in Named(fields, ItemKey(it)) : TRUE]
         IN  SetItems([sh EXCEPT ![f.id] = NatOf(ItemValue(it))], fields, Tail(items))

\* A Set that adds the elements decoded to the elements of the slice.
flagValueSet_Append(sh, id, kind, s) ==
    IF kind = "ptr" THEN SetItems(sh, PointFields, Items(s))
    ELSE IF kind = "map" THEN [sh EXCEPT ![id] = SetEntries(sh[id], Items(s))]
    ELSE IF kind = "slice" THEN [sh EXCEPT ![id] = sh[id] \o Decoded(kind, s)]
    ELSE [sh EXCEPT ![id] = Decoded(kind, s)]

\* The struct after flagValue{field id}.Set(s) returned nil.
flagValueSet(sh, id, kind, s) ==
    IF kind = "ptr" THEN SetItems(sh, PointFields, Items(s))
    ELSE IF kind = "map" THEN [sh EXCEPT ![id] = SetEntries(sh[id], Items(s))]
    ELSE [sh EXCEPT ![id] = Decoded(kind, s)]

-----------------------------------------------------------------------------
(* newFlagSet: one flag per scanned field (separator "."), then one flag   *)
(* per source that is a FlagSource.  The only FlagSource is the fileSource.*)

newFlagSet(schema, sources) ==
    [fields  |-> scanFields(schema, <<>>, <<".">>),
     sources |-> sources]

IsFlagSource(src) == src.kind = "file"

NoFlag == [t |-> "none", id |-> "", kind |-> "", i |-> 0]

\* f.formal[name]
Lookup(set, name) ==
    IF \E k \in 1..Len(set.fields) : set.fields[k].key = name
    THEN LET k == CHOOSE k \in 1..Len(set.fields) : set.fields[k].key = name
         IN  [t |-> "field", id |-> set.fields[k].id, kind |-> set.fields[k].kind, i |-> 0]
    ELSE IF \E i \in 1..Len(set.sources) :
                IsFlagSource(set.sources[i]) /\ set.sources[i].flag = name
    THEN [t |-> "source", id |-> "", kind |-> "",
          i |-> CHOOSE i \in 1..Len(set.sources) :
                    IsFlagSource(set.sources[i]) /\ set.sources[i].flag = name]
    ELSE NoFlag

\* flagValue.IsBoolFlag; a fileSource has no IsBoolFlag method.
IsBoolFlag(flag) == flag.t = "field" /\ flag.kind = "bool"

\* Whether flag.Value.Set(s) returns nil: fileSource.Set always does.
SetOk(flag, s) == flag.t = "source" \/ Decodes(flag.kind, s)

\* The shadow struct and the sources' paths after a successful Set(s).
SetShadow(flag, sh, s) ==
    IF flag.t = "field" THEN flagValueSet(sh, flag.id, flag.kind, s) ELSE sh

SetPath(flag, pth, s) ==
    IF flag.t = "source" THEN [pth EXCEPT ![flag.i] = s] ELSE pth

StrHelp == <<"h", "e", "l", "p">>
StrH == <<"h">>

ParseResult(sh, pth, rest, e) == [sh |-> sh, path |-> pth, rest |-> rest, err |-> e]

\* The position of the first "=" of name after its first character, or 0.
EqualsAt(name) ==
    IF \E i \in 2..Len(name) : name[i] = "="
    THEN CHOOSE i \in 2..Len(name) : name[i] = "=" /\ \A j \in 2..(i - 1) : name[j] # "="
    ELSE 0

(* FlagSet.Parse of package flag, with ContinueOnError: parseOne on the    *)
(* remaining arguments a until it sees no flag or fails.                   *)
RECURSIVE Parse(_, _, _, _)
Parse(set, sh, pth, a) ==
    IF Len(a) = 0 THEN ParseResult(sh, pth, a, Nil)
    ELSE
    LET s == a[1] IN
    IF Len(s) < 2 \/ s[1] # "-" THEN ParseResult(sh, pth, a, Nil)
    ELSE
    LET numMinuses == IF s[2] = "-" THEN 2 ELSE 1 IN
    IF numMinuses = 2 /\ Len(s) = 2 THEN ParseResult(sh, pth, Tail(a), Nil)
    ELSE
    LET name0 == Drop(s, numMinuses) IN
    IF Len(name0) = 0 \/ name0[1] = "-" \/ name0[1] = "="
    THEN ParseResult(sh, pth, a, Error("bad flag syntax", s))
    ELSE
    LET eq       == EqualsAt(name0)
        name     == IF eq # 0 THEN SubSeq(name0, 1, eq - 1) ELSE name0
        flag     == Lookup(set, name)
        a1       == Tail(a)
        takeNext == eq = 0 /\ ~IsBoolFlag(flag) /\ Len(a1) > 0
        hasValue == eq # 0 \/ takeNext
        value    == IF eq # 0 THEN Drop(name0, eq)
                    ELSE IF takeNext THEN a1[1]
                    ELSE IF IsBoolFlag(flag) THEN StrTrue
                    ELSE <<>>
        a2       == IF takeNext THEN Tail(a1) ELSE a1
    IN
    IF flag.t = "none"
    THEN IF name = StrHelp \/ name = StrH
         THEN ParseResult(sh, pth, a1, ErrHelp)
         ELSE ParseResult(sh, pth, a1, Error("flag provided but not defined", name))
    ELSE IF ~IsBoolFlag(flag) /\ ~hasValue
    THEN ParseResult(sh, pth, a1, Error("flag needs an argument", name))
    ELSE IF ~SetOk(flag, value)
    THEN ParseResult(sh, pth, a2,
                     Error(IF IsBoolFlag(flag) THEN "invalid boolean value"
                           ELSE "invalid value", name))
    ELSE Parse(set, SetShadow(flag, sh, value), SetPath(flag, pth, value), a2)

-----------------------------------------------------------------------------
(* snakecaseUpper: the key transform of the environment source.  It scans  *)
(* the string from its end, one run of lower-case or upper-case letters at *)
(* a time, puts "_" at each word boundary, turns "-" into "_", and         *)
(* upper-cases the result: HelloWorld gives HELLO_WORLD.                   *)

isSeparator(c) == c = "_" \/ c = "-"

snakebyte(c) == IF isSeparator(c) THEN "_" ELSE c

Reverse(s) == [k \in 1..Len(s) |-> s[Len(s) + 1 - k]]

RECURSIVE LowerRun(_, _)
\* Where the scan stands after a run that ends at i: no separator, no upper case.
LowerRun(s, i) ==
    IF i >= 1 /\ ~isSeparator(s[i]) /\ ~isUpper(s[i]) THEN LowerRun(s, i - 1) ELSE i

RECURSIVE UpperRun(_, _)
UpperRun(s, i) ==
    IF i >= 1 /\ ~isSeparator(s[i]) /\ ~isLower(s[i]) THEN UpperRun(s, i - 1) ELSE i

RECURSIVE snakeScan_KeepSeparator(_, _, _)
\* A scan that leaves the separator before a run of upper case in place.
snakeScan_KeepSeparator(s, i, b) ==
    IF i < 1 THEN b
    ELSE IF isLower(s[i])
    THEN LET j  == LowerRun(s, i)
             b1 == b \o Reverse(SubSeq(s, j + 1, i))
         IN  IF j < 1 THEN b1
             ELSE LET b2 == Append(b1, snakebyte(s[j])) IN
                  IF isSeparator(s[j]) THEN snakeScan_KeepSeparator(s, j - 1, b2)
                  ELSE IF j - 1 >= 1 /\ ~isSeparator(s[j - 1])
                  THEN snakeScan_KeepSeparator(s, j - 1, Append(b2, "_"))
                  ELSE snakeScan_KeepSeparator(s, j - 1, b2)
    ELSE IF isUpper(s[i])
    THEN LET j  == UpperRun(s, i)
             b1 == b \o Reverse(SubSeq(s, j + 1, i))
         IN  IF j < 1 THEN b1
             ELSE snakeScan_KeepSeparator(s, j, Append(b1, "_"))
    ELSE snakeScan_KeepSeparator(s, i - 1, Append(b, snakebyte(s[i])))

RECURSIVE snakeScan(_, _, _)
\* b holds the output so far, last character first.
snakeScan(s, i, b) ==
    IF i < 1 THEN b
    ELSE IF isLower(s[i])
    THEN LET j  == LowerRun(s, i)
             b1 == b \o Reverse(SubSeq(s, j + 1, i))
         IN  IF j < 1 THEN b1
             ELSE LET b2 == Append(b1, snakebyte(s[j])) IN
                  IF isSeparator(s[j]) THEN snakeScan(s, j - 1, b2)
                  ELSE IF j - 1 >= 1 /\ ~isSeparator(s[j - 1])
                  THEN snakeScan(s, j - 1, Append(b2, "_"))
                  ELSE snakeScan(s, j - 1, b2)
    ELSE IF isUpper(s[i])
    THEN LET j  == UpperRun(s, i)
             b1 == b \o Reverse(SubSeq(s, j + 1, i))
         IN  IF j < 1 THEN b1
             ELSE snakeScan(s, IF isSeparator(s[j]) THEN j - 1 ELSE j, Append(b1, "_"))
    ELSE snakeScan(s, i - 1, Append(b, snakebyte(s[i])))

snakecase(s) == Reverse(snakeScan(s, Len(s), <<>>))

snakecaseUpper(s) == ToUpper(snakecase(s))

-----------------------------------------------------------------------------
(* Sources.  A source is one of                                            *)
(*   func: a SourceFunc that writes w (field -> value) to dst and returns  *)
(*         an error when fail;                                             *)
(*   file: a fileSource with its flag; its path is in the variable path;   *)
(*   env:  NewEnvSource(prefix, env...).                                   *)

Source(kind, w, fail, flag, prefix, env) ==
    [kind |-> kind, w |-> w, fail |-> fail, flag |-> flag, prefix |-> prefix, env |-> env]

SourceFunc(w, fail) == Source("func", w, fail, <<>>, <<>>, <<>>)

NewFileSource(flag) == Source("file", <<>>, FALSE, flag, <<>>, <<>>)

NewEnvSource(prefix, env) == Source("env", <<>>, FALSE, <<>>, prefix, env)

Call(op, i) == [op |-> op, i |-> i]

LoadResult(sh, e, calls) == [sh |-> sh, err |-> e, calls |-> calls]

\* dst after a decoder or a function wrote w to it: the fields dst has.
Write(sh, w) == [id \in DOMAIN sh |-> IF id \in DOMAIN w THEN w[id] ELSE sh[id]]

\* SourceFunc.Load
funcLoad(src, i, sh) ==
    LoadResult(Write(sh, src.w),
               IF src.fail THEN Error("source failed", <<DigitChar(i)>>) ELSE Nil,
               <<>>)

(* fileSource.Load.  file is what readFile finds at the path: unreadable,  *)
(* a text the template package rejects, or a text unmarshal decodes,       *)
(* writing file.w, and then accepts or (file.bad) rejects.                 *)
\* A Load without the test of the path: the empty path is read like any other.
fileLoad_NoGuard(i, sh, pth, file) ==
    IF file.kind = "unreadable" \/ Len(pth) = 0
    THEN LoadResult(sh, Error("readFile failed", pth), <<Call("readFile", i)>>)
    ELSE IF file.kind = "badtemplate"
    THEN LoadResult(sh, Error("template failed", pth), <<Call("readFile", i)>>)
    ELSE LoadResult(Write(sh, file.w),
                    IF file.bad THEN Error("unmarshal failed", pth) ELSE Nil,
                    <<Call("readFile", i), Call("unmarshal", i)>>)

fileLoad(i, sh, pth, file) ==
    IF Len(pth) = 0 THEN LoadResult(sh, Nil, <<>>)
    ELSE IF file.kind = "unreadable"
    THEN LoadResult(sh, Error("readFile failed", pth), <<Call("readFile", i)>>)
    ELSE IF file.kind = "badtemplate"
    THEN LoadResult(sh, Error("template failed", pth), <<Call("readFile", i)>>)
    ELSE LoadResult(Write(sh, file.w),
                    IF file.bad THEN Error("unmarshal failed", pth) ELSE Nil,
                    <<Call("readFile", i), Call("unmarshal", i)>>)

\* The first entry of env that starts with key, or 0.
FirstWithPrefix(env, key) ==
    IF \E m \in 1..Len(env) : HasPrefix(env[m], key)
    THEN CHOOSE m \in 1..Len(env) :
             HasPrefix(env[m], key) /\ \A n \in 1..(m - 1) : ~HasPrefix(env[n], key)
    ELSE 0

\* A key without the equals sign at its end.
EnvKey_NoEquals(key) == snakecaseUpper(key)

\* The key of an entry of the environment source.
EnvKey(key) == snakecaseUpper(key) \o <<"=">>

RECURSIVE envSet(_, _, _)
\* The loop over the entries: the first matching variable is decoded into each.
envSet(entries, env, sh) ==
    IF Len(entries) = 0 THEN LoadResult(sh, Nil, <<>>)
    ELSE LET e   == Head(entries)
             key == EnvKey(e.key)
             m   == FirstWithPrefix(env, key)
             v   == Drop(env[m], Len(key))
         IN  IF m = 0 THEN envSet(Tail(entries), env, sh)
             ELSE IF ~Decodes(e.kind, v)
             THEN LoadResult(sh, Error("invalid environment value", env[m]), <<>>)
             ELSE envSet(Tail(entries), env, flagValueSet(sh, e.id, e.kind, v))

\* The function NewEnvSource returns.
envLoad(src, schema, sh) ==
    IF Len(src.env) # 0
    THEN envSet(scanFields(schema, src.prefix, <<"_">>), src.env,
                Allocated(schema, sh))
    ELSE LoadResult(sh, Nil, <<>>)

(* The config-map source.  Its directory is the list of its entries, each  *)
(* written name=content; a name alone is an entry ReadFile cannot read (a   *)
(* directory), and src.fail says that the directory itself cannot be        *)
(* opened.                                                                  *)
NewKubernetesConfigMapSource(prefix, unopened, dir) ==
    Source("configmap", <<>>, unopened, <<>>, prefix, dir)

EntryName(e) == IF IndexByte(e, "=") = 0 THEN e ELSE SubSeq(e, 1, IndexByte(e, "=") - 1)

\* bytes.TrimSuffix(data, "\n") of the content of the entry.
EntryData(e) ==
    LET data == Drop(e, IndexByte(e, "="))
    IN  IF Len(data) > 0 /\ data[Len(data)] = "\n" THEN SubSeq(data, 1, Len(data) - 1) ELSE data

Hidden(e) == Len(e) > 0 /\ e[1] = "."

\* The entries read into vars: those whose name does not start with a dot.
Visible(dir) == SelectSeq(dir, LAMBDA e : ~Hidden(e))

\* The index in dir of the entry vars holds under key k, the last of that
\* key; 0 when vars has no such key.
VarAt(dir, k) ==
    IF \E m \in 1..Len(dir) : snakecaseUpper(EntryName(dir[m])) = k
    THEN CHOOSE m \in 1..Len(dir) :
             /\ snakecaseUpper(EntryName(dir[m])) = k
             /\ \A n \in (m + 1)..Len(dir) : snakecaseUpper(EntryName(dir[n])) # k
    ELSE 0

RECURSIVE configSet(_, _, _)
\* dst.Scan: each item whose key is in vars is set to the content; the
\* error of a Set is kept in a variable the function does not return.
configSet(entries, dir, sh) ==
    IF Len(entries) = 0 THEN sh
    ELSE LET e == Head(entries)
             m == VarAt(dir, snakecaseUpper(e.key))
         IN  IF m = 0 \/ ~Decodes(e.kind, EntryData(dir[m]))
             THEN configSet(Tail(entries), dir, sh)
             ELSE configSet(Tail(entries), dir, flagValueSet(sh, e.id, e.kind, EntryData(dir[m])))

\* The function NewKubernetesConfigMapSource returns.
configMapLoad(src, schema, sh) ==
    LET dir == Visible(src.env)
        unread == {m \in 1..Len(dir) : IndexByte(dir[m], "=") = 0}
    IN  IF src.fail THEN LoadResult(sh, Error("open failed", <<>>), <<>>)
        ELSE IF unread # {}
        THEN LoadResult(sh, Error("read failed", dir[CHOOSE m \in unread : \A n \in unread : m <= n]), <<>>)
        ELSE LoadResult(configSet(scanFields(schema, src.prefix, <<"_">>), dir, sh), Nil, <<>>)

\* source.Load(dst) for the i-th source of the loader.
SourceLoad(src, i, schema, sh, pth, file) ==
    IF src.kind = "func" THEN funcLoad(src, i, sh)
    ELSE IF src.kind = "file" THEN fileLoad(i, sh, pth, file)
    ELSE IF src.kind = "configmap" THEN configMapLoad(src, schema, sh)
    ELSE envLoad(src, schema, sh)

-----------------------------------------------------------------------------
(* Loader.Load, Loader.load and LoadWith, one step at a time.              *)

Done(e) == /\ pc' = "done"
           /\ err' = e

IsCommand(commands, name) == \E k \in 1..Len(commands) : commands[k] = name

\* The file readFile finds at path p: only FilePath exists.
StrConfigFile == <<"c", "o", "n", "f", "i", "g", "-", "f", "i", "l", "e">>
FilePath == <<"f">>
Unreadable == [kind |-> "unreadable", w |-> <<>>, bad |-> FALSE]
BadTemplate == [kind |-> "badtemplate", w |-> <<>>, bad |-> FALSE]
Yaml(w, bad) == [kind |-> "yaml", w |-> w, bad |-> bad]
FileAt(p) == IF p = FilePath THEN fs ELSE Unreadable

(* Load up to the call of ld.load: the command is checked and taken off    *)
(* the arguments, then makeValue builds the shadow value.                  *)
Begin ==
    /\ pc = "start"
    /\ IF Len(ld.commands) # 0 /\ Len(ld.args) = 0
       THEN /\ Done(Error("missing command", <<>>))
            /\ UNCHANGED <<ld, cmd, args, shadow>>
       ELSE IF Len(ld.commands) # 0 /\ ~IsCommand(ld.commands, ld.args[1])
       THEN /\ Done(Error("unknown command", ld.args[1]))
            /\ UNCHANGED <<ld, cmd, args, shadow>>
       ELSE IF Len(ld.commands) # 0 /\ cfgNil
       THEN /\ Done(Nil)
            /\ cmd' = ld.args[1]
            /\ args' = Tail(ld.args)
            /\ ld' = [ld EXCEPT !.args = Tail(ld.args)]
            /\ UNCHANGED shadow
       ELSE /\ pc' = "parse1"
            /\ cmd' = IF Len(ld.commands) # 0 THEN ld.args[1] ELSE <<>>
            /\ ld' = IF Len(ld.commands) # 0
                     THEN [ld EXCEPT !.args = Tail(ld.args)] ELSE ld
            /\ shadow' = makeValue(SchemaOf(cfgNil), cfg)
            /\ UNCHANGED <<args, err>>
    /\ UNCHANGED <<cfgNil, rules, fs, cfg0, cfg, path, idx, exit, trace>>

\* What one parse of the arguments does to the state of load.
ParseArgs == Parse(newFlagSet(SchemaOf(cfgNil), ld.sources), shadow, path, ld.args)

\* The first parse follows newFlagSet, whose scan allocates the nil pointers.
ParseScanned == Parse(newFlagSet(SchemaOf(cfgNil), ld.sources),
                      Allocated(SchemaOf(cfgNil), shadow), path, ld.args)

\* A first parse that does not hand the flag sources their values.
FlagPass1_NoSet ==
    /\ pc = "parse1"
    /\ LET r == ParseArgs IN
       /\ shadow' = r.sh
       /\ err' = r.err
       /\ pc' = IF r.err # Nil THEN "done" ELSE "sources"
    /\ idx' = 1
    /\ trace' = Append(trace, Call("Parse", 0))
    /\ UNCHANGED <<ld, cfgNil, rules, fs, cfg0, cfg, path, cmd, args, exit>>

\* A first parse whose error does not stop the load.
FlagPass1_IgnoreError ==
    /\ pc = "parse1"
    /\ LET r == ParseArgs IN
       /\ shadow' = r.sh
       /\ path' = r.path
       /\ err' = r.err
    /\ pc' = "sources"
    /\ idx' = 1
    /\ trace' = Append(trace, Call("Parse", 0))
    /\ UNCHANGED <<ld, cfgNil, rules, fs, cfg0, cfg, cmd, args, exit>>

(* load: newFlagSet and the first parse, which gives the flag sources      *)
(* their values.                                                           *)
FlagPass1 ==
    /\ pc = "parse1"
    /\ LET r == ParseScanned IN
       /\ shadow' = r.sh
       /\ path' = r.path
       /\ err' = r.err
       /\ pc' = IF r.err # Nil THEN "done" ELSE "sources"
    /\ idx' = 1
    /\ trace' = Append(trace, Call("Parse", 0))
    /\ UNCHANGED <<ld, cfgNil, rules, fs, cfg0, cfg, cmd, args, exit>>

\* A loop that takes the sources from the end of the list.
LoadSource_Reversed ==
    /\ pc = "sources"
    /\ idx <= Len(ld.sources)
    /\ LET k == Len(ld.sources) + 1 - idx
           r == SourceLoad(ld.sources[k], k, SchemaOf(cfgNil), shadow,
                           path[k], FileAt(path[k])) IN
       /\ shadow' = r.sh
       /\ err' = r.err
       /\ pc' = IF r.err # Nil THEN "done" ELSE "sources"
       /\ trace' = trace \o <<Call("Load", k)>> \o r.calls
    /\ idx' = idx + 1
    /\ UNCHANGED <<ld, cfgNil, rules, fs, cfg0, cfg, path, cmd, args, exit>>

\* A loop that does not return on the error of a source.
LoadSource_IgnoreError ==
    /\ pc = "sources"
    /\ idx <= Len(ld.sources)
    /\ LET r == SourceLoad(ld.sources[idx], idx, SchemaOf(cfgNil), shadow,
                           path[idx], FileAt(path[idx])) IN
       /\ shadow' = r.sh
       /\ err' = r.err
       /\ trace' = trace \o <<Call("Load", idx)>> \o r.calls
    /\ pc' = "sources"
    /\ idx' = idx + 1
    /\ UNCHANGED <<ld, cfgNil, rules, fs, cfg0, cfg, path, cmd, args, exit>>

\* load: one turn of the loop over ld.Sources.
LoadSource ==
    /\ pc = "sources"
    /\ idx <= Len(ld.sources)
    /\ LET r == SourceLoad(ld.sources[idx], idx, SchemaOf(cfgNil), shadow,
                           path[idx], FileAt(path[idx])) IN
       /\ shadow' = r.sh
       /\ err' = r.err
       /\ pc' = IF r.err # Nil THEN "done" ELSE "sources"
       /\ trace' = trace \o <<Call("Load", idx)>> \o r.calls
    /\ idx' = idx + 1
    /\ UNCHANGED <<ld, cfgNil, rules, fs, cfg0, cfg, path, cmd, args, exit>>

\* A load that only takes the leftover arguments instead of parsing again.
FlagPass2_NoParse ==
    /\ pc = "sources"
    /\ idx > Len(ld.sources)
    /\ pc' = "copy"
    /\ args' = ParseArgs.rest
    /\ trace' = Append(trace, Call("Parse", 0))
    /\ UNCHANGED <<ld, cfgNil, rules, fs, cfg0, cfg, shadow, path, idx, cmd, err, exit>>

\* A load that returns all of its arguments as the leftover ones.
FlagPass2_AllArgs ==
    /\ pc = "sources"
    /\ idx > Len(ld.sources)
    /\ LET r == ParseArgs IN
       /\ shadow' = r.sh
       /\ path' = r.path
       /\ err' = r.err
       /\ pc' = IF r.err # Nil THEN "done" ELSE "copy"
       /\ args' = IF r.err # Nil THEN args ELSE ld.args
    /\ trace' = Append(trace, Call("Parse", 0))
    /\ UNCHANGED <<ld, cfgNil, rules, fs, cfg0, cfg, idx, cmd, exit>>

\* load: the second parse, after the last source, and set.Args().
FlagPass2 ==
    /\ pc = "sources"
    /\ idx > Len(ld.sources)
    /\ LET r == ParseArgs IN
       /\ shadow' = r.sh
       /\ path' = r.path
       /\ err' = r.err
       /\ pc' = IF r.err # Nil THEN "done" ELSE "copy"
       /\ args' = IF r.err # Nil THEN args ELSE r.rest
    /\ trace' = Append(trace, Call("Parse", 0))
    /\ UNCHANGED <<ld, cfgNil, rules, fs, cfg0, cfg, idx, cmd, exit>>

\* The fields validator.Validate reports: those tagged nonzero that are zero.
Invalid(v) == {id \in rules \cap DOMAIN v : v[id] = 0}

\* The bytes names and tags are written with, in the order of their values.
Bytes == <<"-", ".">> \o Digits \o Uppers \o <<"_">> \o Lowers

RECURSIVE Less(_, _)
\* s < t as Go orders strings, byte by byte.
Less(s, t) ==
    IF Len(t) = 0 THEN FALSE
    ELSE IF Len(s) = 0 THEN TRUE
    ELSE IF s[1] = t[1] THEN Less(Tail(s), Tail(t))
    ELSE IndexIn(s[1], Bytes) < IndexIn(t[1], Bytes)

RECURSIVE SortStrings_Reversed(_)
\* A sort that puts the greatest string first.
SortStrings_Reversed(S) ==
    IF S = {} THEN <<>>
    ELSE LET x == CHOOSE x \in S : \A y \in S \ {x} : Less(y, x)
         IN  <<x>> \o SortStrings_Reversed(S \ {x})

RECURSIVE SortStrings(_)
\* sort.Strings of the strings of S.
SortStrings(S) ==
    IF S = {} THEN <<>>
    ELSE LET x == CHOOSE x \in S : \A y \in S \ {x} : Less(x, y)
         IN  <<x>> \o SortStrings(S \ {x})

\* The keys of the validator's ErrorMap: the Go names of the invalid fields.
ErrorMap(schema, v) == {schema[i].name : i \in {j \in 1..Len(schema) : schema[j].id \in Invalid(v)}}

RECURSIVE fieldPath(_, _)
\* fieldPath: the dotted path of Go names turned into the path of conf tags.
fieldPath(fields, p) ==
    LET sep == IndexByte(p, ".")
        name == IF sep > 0 THEN SubSeq(p, 1, sep - 1) ELSE p
        rest == IF sep > 0 THEN Drop(p, sep) ELSE <<>>
        found == {i \in 1..Len(fields) : fields[i].name = name}
    IN  IF found = {} THEN (IF Len(rest) # 0 THEN name \o <<".">> \o rest ELSE name)
        ELSE LET f == fields[CHOOSE i \in found : TRUE]
                 tagged == IF Len(f.tag) # 0 THEN f.tag ELSE f.name
                 sub == IF Len(rest) # 0 THEN fieldPath(Elem(f), rest) ELSE <<>>
             IN  IF Len(sub) # 0 THEN tagged \o <<".">> \o sub ELSE tagged

\* The reason the validator gives for a zero field tagged nonzero.
StrZeroValue == <<"z", "e", "r", "o">>

RECURSIVE errorList(_, _)
\* The errors of the errorList, one per key in the order of errkeys, each
\* the conf path and the reason, written one after the other with ";".
errorList(schema, errkeys) ==
    IF Len(errkeys) = 0 THEN <<>>
    ELSE fieldPath(schema, Head(errkeys)) \o <<":">> \o StrZeroValue
             \o (IF Len(errkeys) > 1 THEN <<";">> ELSE <<>>)
             \o errorList(schema, Tail(errkeys))

\* The error of Load after the merge: nil, or the errorList of the validation.
Validate(v) ==
    IF Invalid(v) = {} THEN Nil
    ELSE Error("errorList", errorList(Schema, SortStrings(ErrorMap(Schema, v))))

\* Load after ld.load returned nil: setZero, setValue, validator.Validate.
Finish ==
    /\ pc = "copy"
    /\ cfg' = setValue(ZeroStruct(SchemaOf(cfgNil)), shadow)
    /\ Done(Validate(setValue(ZeroStruct(SchemaOf(cfgNil)), shadow)))
    /\ UNCHANGED <<ld, cfgNil, rules, fs, cfg0, shadow, path, idx, cmd, args, exit, trace>>

\* LoadWith: what it does with the error of Load.
\* A LoadWith for which the request for help is an error like the others.
LoadWith_HelpFails ==
    /\ pc = "done"
    /\ pc' = "exited"
    /\ exit' = IF err = Nil THEN "return" ELSE "exit1"
    /\ UNCHANGED <<ld, cfgNil, rules, fs, cfg0, cfg, shadow, path, idx, cmd, args, err, trace>>

LoadWith ==
    /\ pc = "done"
    /\ pc' = "exited"
    /\ exit' = IF err = Nil THEN "return"
               ELSE IF err = ErrHelp THEN "exit0"
               ELSE "exit1"
    /\ UNCHANGED <<ld, cfgNil, rules, fs, cfg0, cfg, shadow, path, idx, cmd, args, err, trace>>

Next == Begin \/ FlagPass1 \/ LoadSource \/ FlagPass2 \/ Finish \/ LoadWith

-----------------------------------------------------------------------------
(* Inputs. *)

SeqsUpTo(S, n) == UNION {[1..k -> S] : k \in 0..n}

StrTest == <<"t", "e", "s", "t">>
StrRun == <<"r", "u", "n">>

\* The argument -name=v and the argument -name.
FlagEq(name, v) == <<"-">> \o name \o <<"=">> \o v
Flag(name) == <<"-">> \o name

\* A struct whose int fields hold v.
StructOf(v) == [id \in FieldIds(Schema) |->
                   IF KindOf(Schema, id) = "bool" THEN v # 0 ELSE v]

Defaults == {StructOf(0), StructOf(MaxVal)}

Files == {Unreadable,
          Yaml([id \in {"A", "B"} |-> 1], FALSE), Yaml([id \in {"A"} |-> MaxVal], TRUE)}

\* At most one source may define a given flag: flag.Var panics otherwise.
OneFileSource(sources) ==
    Cardinality({i \in 1..Len(sources) : sources[i].kind = "file"}) <= 1

Loader(name, a, commands, sources) ==
    [name |-> name, args |-> a, commands |-> commands, sources |-> sources]

\* The state when Load is called with loader l on a struct holding c.
Start(l, nil, c, r, f) ==
    /\ ld = l
    /\ cfgNil = nil
    /\ rules = r
    /\ fs = f
    /\ cfg0 = c
    /\ cfg = c
    /\ shadow = <<>>
    /\ path = [i \in 1..Len(l.sources) |-> <<>>]
    /\ pc = "start"
    /\ idx = 1
    /\ cmd = <<>>
    /\ args = <<>>
    /\ err = Nil
    /\ exit = "none"
    /\ trace = <<>>

(* The merge: any list of function and file sources, arguments that set    *)
(* fields and the path of the file.                                        *)
MergeArgs == {FlagEq(<<"A">>, <<DigitChar(v)>>) : v \in {1, MaxVal}}
             \cup {Flag(<<"b">>), <<"1">>, FlagEq(StrConfigFile, FilePath)}

MergeSources == {SourceFunc([id \in {"A"} |-> v], FALSE) : v \in {1, MaxVal}}
                \cup {SourceFunc([id \in {"A", "B"} |-> 1], FALSE),
                      SourceFunc([id \in {"B"} |-> MaxVal], TRUE),
                      NewFileSource(StrConfigFile)}

HasFileSource(sources) == \E i \in 1..Len(sources) : sources[i].kind = "file"

\* The files that matter: fs is read only through the path of a file source.
FilesFor(read) == IF read THEN Files ELSE {Unreadable}

Init ==
    \E a \in SeqsUpTo(MergeArgs, MaxArgs), ss \in SeqsUpTo(MergeSources, MaxSources) :
        /\ OneFileSource(ss)
        /\ \E f \in FilesFor(HasFileSource(ss)) :
               Start(Loader(StrTest, a, <<>>, ss), FALSE, StructOf(0), {}, f)

Spec == Init /\ [][Next]_vars

-----------------------------------------------------------------------------
(* The command line: arguments of every shape the flag package tells       *)
(* apart, with and without commands, validation rules and sources.         *)

CliArgs == {Flag(<<"A">>), <<"1">>, Flag(<<"V">>), Flag(<<"h">>), Flag(StrHelp),
            <<"-">> \o Flag(StrHelp), <<"-", "-">>, Flag(<<"X">>),
            FlagEq(<<"I">>, <<"1">>), StrRun, FlagEq(StrConfigFile, FilePath)}

CliSources == {<<>>, <<NewFileSource(StrConfigFile), SourceFunc([id \in {"A"} |-> MaxVal], FALSE)>>}

InitArgs ==
    \E a \in SeqsUpTo(CliArgs, MaxArgs), ss \in CliSources,
       cs \in {<<>>, <<StrRun>>}, r \in {{}, {"A", "B"}, {"B", "I"}} :
        \/ \E c \in Defaults :
               Start(Loader(StrTest, a, cs, ss), FALSE, c, r, Yaml([id \in {"A", "B"} |-> 1], FALSE))
        \/ /\ Len(cs) # 0
           /\ Start(Loader(StrTest, a, cs, ss), TRUE, <<>>, r, Yaml([id \in {"A", "B"} |-> 1], FALSE))

SpecArgs == InitArgs /\ [][Next]_vars

-----------------------------------------------------------------------------
(* The default loader: Load(cfg) on os.Args and os.Environ().              *)

\* filepath.Base of a program name without a directory.
RECURSIVE TrimSlashes(_)
TrimSlashes(s) ==
    IF Len(s) > 0 /\ s[Len(s)] = "/" THEN TrimSlashes(SubSeq(s, 1, Len(s) - 1)) ELSE s

\* 1-based; 0 when c does not occur in s.
LastIndexByte(s, c) == IF \E i \in 1..Len(s) : s[i] = c
                       THEN CHOOSE i \in 1..Len(s) :
                                s[i] = c /\ \A j \in (i + 1)..Len(s) : s[j] # c
                       ELSE 0

\* filepath.Base: the last element of the path.
Base(name) ==
    IF Len(name) = 0 THEN <<".">>
    ELSE LET p == TrimSlashes(name)
             q == Drop(p, LastIndexByte(p, "/"))
         IN  IF Len(q) = 0 THEN <<"/">> ELSE q

\* A default loader whose environment source comes before the file source.
defaultLoader_EnvFirst(osArgs, environ) ==
    Loader(Base(osArgs[1]), Tail(osArgs), <<>>,
           <<NewEnvSource(Base(osArgs[1]), environ), NewFileSource(StrConfigFile)>>)

\* makeEnvVars is the variables of the file's template, which the model of the file leaves out.
defaultLoader(osArgs, environ) ==
    Loader(Base(osArgs[1]), Tail(osArgs), <<>>,
           <<NewFileSource(StrConfigFile), NewEnvSource(Base(osArgs[1]), environ)>>)

DefaultArgs == {FlagEq(<<"A">>, <<DigitChar(v)>>) : v \in {1, MaxVal}}
               \cup {FlagEq(StrConfigFile, FilePath)}

EnvVar(key, v) == key \o <<"=">> \o v

EnvVars == {EnvVar(<<"T", "E", "S", "T", "_", "A">>, <<DigitChar(v)>>) : v \in {1, MaxVal}}
           \cup {EnvVar(<<"T", "E", "S", "T", "_", "B">>, <<DigitChar(MaxVal)>>),
                 EnvVar(<<"T", "E", "S", "T", "_", "A">>, <<"x">>),
                 EnvVar(<<"T", "E", "S", "T", "_", "A", "A">>, <<"1">>),
                 EnvVar(<<"T", "E", "S", "T", "_", "I">>, <<"1">>)}

\* The program's name as the system hands it over, and its defaults.
ProgramPath == <<".", "/">> \o StrTest

DefaultConfig == [StructOf(MaxVal) EXCEPT !["B"] = 0]

InitDefault ==
    \E a \in SeqsUpTo(DefaultArgs, MaxArgs), e \in SeqsUpTo(EnvVars, MaxEnv) :
        \E f \in FilesFor(\E k \in 1..Len(a) : a[k] = FlagEq(StrConfigFile, FilePath)) :
            Start(defaultLoader(<<ProgramPath>> \o a, e), FALSE, DefaultConfig, {}, f)

SpecDefault == InitDefault /\ [][Next]_vars

-----------------------------------------------------------------------------
(* The loader before the command check moved from load to Load: there the  *)
(* check is the head of load, the struct is never nil when load runs, and  *)
(* Load has no validation.  The parses, the loop over the sources and      *)
(* LoadWith are the same.                                                  *)

\* reflect's NumField of the struct load is given.
NumField(schema) == Len(schema)

\* Load up to the first parse of load.
BeginV8 ==
    /\ pc = "start"
    /\ shadow' = makeValue(SchemaOf(cfgNil), cfg)
    /\ IF Len(ld.commands) = 0
       THEN /\ pc' = "parse1"
            /\ UNCHANGED <<cmd, args, err>>
       ELSE IF Len(ld.args) = 0
       THEN /\ Done(Error("missing command", <<>>))
            /\ UNCHANGED <<cmd, args>>
       ELSE LET found == IsCommand(ld.commands, ld.args[1]) IN
            /\ cmd' = IF found THEN ld.args[1] ELSE <<>>
            /\ args' = IF found THEN Tail(ld.args) ELSE <<>>
            /\ err' = IF found THEN Nil ELSE Error("unknown command", ld.args[1])
            /\ pc' = IF NumField(SchemaOf(cfgNil)) = 0
                     THEN (IF found THEN "copy" ELSE "done")
                     ELSE "parse1"
    /\ UNCHANGED <<ld, cfgNil, rules, fs, cfg0, cfg, path, idx, exit, trace>>

\* Load after load: setZero and setValue.
FinishV8 ==
    /\ pc = "copy"
    /\ cfg' = setValue(ZeroStruct(SchemaOf(cfgNil)), shadow)
    /\ pc' = "done"
    /\ UNCHANGED <<ld, cfgNil, rules, fs, cfg0, shadow, path, idx, cmd, args, err, exit, trace>>

NextV8 == BeginV8 \/ FlagPass1 \/ LoadSource \/ FlagPass2 \/ FinishV8 \/ LoadWith

StrX == <<"x">>

CommandArgs == {StrRun, StrX, FlagEq(<<"A">>, <<"1">>), Flag(StrH)}

CommandSources == {<<>>, <<SourceFunc([id \in {"A"} |-> MaxVal], FALSE)>>,
                   <<SourceFunc([id \in {"A"} |-> MaxVal], FALSE),
                     SourceFunc([id \in {"B"} |-> 1], TRUE)>>}

InitV8 ==
    \E a \in SeqsUpTo(CommandArgs, MaxArgs), ss \in CommandSources,
       cs \in {<<>>, <<StrRun>>} :
        \/ \E c \in Defaults : Start(Loader(StrTest, a, cs, ss), FALSE, c, {}, Unreadable)
        \/ Start(Loader(StrTest, a, cs, ss), TRUE, <<>>, {}, Unreadable)

SpecV8 == InitV8 /\ [][NextV8]_vars

-----------------------------------------------------------------------------
(* Load of the struct with the pointer to a point, as in loadTests: the    *)
(* point is set leaf by leaf or as a whole, by flags and by the            *)
(* environment of program test.                                            *)

PointNil == [id \in FieldIds(PointSchema) |-> ZeroOf(KindOf(PointSchema, id))]

\* struct{ P *point }{&point{a, b}}
PointAt(a, b) == [id \in FieldIds(PointSchema) |->
                     IF id = "P" THEN TRUE ELSE IF id = "Px" THEN a ELSE b]

\* The text { 'x': a, 'y': b }.
PointText(a, b) ==
    <<"{", " ", "'", "x", "'", ":", " ", DigitChar(a), ",", " ",
      "'", "y", "'", ":", " ", DigitChar(b), " ", "}">>

StrP == <<"P">>
StrPx == <<"P", ".", "x">>
StrPy == <<"P", ".", "y">>

LeafArgs(a, b) == <<FlagEq(StrPx, <<DigitChar(a)>>), FlagEq(StrPy, <<DigitChar(b)>>)>>

WholeArgs(a, b) == <<FlagEq(StrP, PointText(a, b))>>

LeafEnv(a, b) == <<EnvVar(<<"T", "E", "S", "T", "_", "P", "_", "X">>, <<DigitChar(a)>>),
                   EnvVar(<<"T", "E", "S", "T", "_", "P", "_", "Y">>, <<DigitChar(b)>>)>>

WholeEnv(a, b) == <<EnvVar(<<"T", "E", "S", "T", "_", "P">>, PointText(a, b))>>

NestedArgs == {LeafArgs(a, b)[k] : a, b \in {1, MaxVal}, k \in 1..2}
              \cup {WholeArgs(1, MaxVal)[1], WholeArgs(MaxVal, 1)[1]}

NestedEnv == {LeafEnv(1, MaxVal)[1], LeafEnv(1, MaxVal)[2], WholeEnv(1, MaxVal)[1]}

InitNested ==
    \E a \in SeqsUpTo(NestedArgs, MaxArgs), e \in SeqsUpTo(NestedEnv, MaxEnv),
       c \in {PointNil, PointAt(MaxVal, MaxVal)} :
        Start(Loader(StrTest, a, <<>>, <<NewEnvSource(StrTest, e)>>), FALSE, c, {}, Unreadable)

SpecNested == InitNested /\ [][Next]_vars

(* Load without sources: arguments that set an int, a bool, a point and    *)
(* its fields, a slice and a map, some of them twice, with an argument     *)
(* that is no flag and a flag that is not defined.  fs tells what the      *)
(* decoder does with the entries of a map.                                 *)
TwiceArgs == {FlagEq(<<"A">>, <<DigitChar(v)>>) : v \in {1, MaxVal}}
             \cup {Flag(<<"V">>), FlagEq(<<"V">>, StrFalse), <<"1">>, Flag(StrX)}
             \cup {FlagEq(StrPx, <<"1">>), WholeArgs(MaxVal, 1)[1]}
             \cup {FlagEq(<<"L">>, <<"[", "1", ",", DigitChar(MaxVal), "]">>),
                   FlagEq(<<"L">>, <<"[", DigitChar(MaxVal), "]">>),
                   FlagEq(<<"M">>, <<"{", "1", ":", "1", "}">>),
                   FlagEq(<<"M">>, <<"{", DigitChar(MaxVal), ":", "1", "}">>)}

\* The struct before the call: zero, or every field set.
TwiceConfigs ==
    {ZeroStruct(TwiceSchema),
     [id \in FieldIds(TwiceSchema) |->
         CASE id \in {"V", "P"} -> TRUE
           [] id = "L" -> <<MaxVal>>
           [] id = "M" -> [k \in {0} |-> MaxVal]
           [] OTHER -> MaxVal]}

NextTwice == Begin \/ FlagPass1 \/ FlagPass2 \/ Finish

InitTwice ==
    \E a \in SeqsUpTo(TwiceArgs, MaxArgs), c \in TwiceConfigs, d \in {Merging, Replacing} :
        Start(Loader(StrTest, a, <<>>, <<>>), FALSE, c, {}, d)

SpecTwice == InitTwice /\ [][NextTwice]_vars

-----------------------------------------------------------------------------
(* Values and types as package reflect gives them to value.go and type.go.  *)
(* A type is a record of its kind k, its name, its length len (arrays),     *)
(* exp, tag and anon (a struct field: whether it is exported, its conf tag, *)
(* whether it is anonymous), raw (a struct field: its tag as it is written) *)
(* and elems, the types it is made of.  A value is                          *)
(* a record of its type t, nil (maps, slices and pointers), its number n    *)
(* (scalars and the special types) and elems, the values it holds.  The     *)
(* copies of the flat store above are called makeValue and setValue; the    *)
(* copies of whole values are MakeValue and SetValue.                       *)

Type(k, name, len, elems) ==
    [k |-> k, name |-> name, len |-> len, exp |-> TRUE, tag |-> "", anon |-> FALSE,
     raw |-> <<>>, elems |-> elems]

stringType == Type("string", "string", 0, <<>>)

intType == Type("int", "int", 0, <<>>)

timeDurationType == Type("special", "time.Duration", 0, <<>>)

netTCPAddrType == Type("special", "net.TCPAddr", 0, <<>>)

netUDPAddrType == Type("special", "net.UDPAddr", 0, <<>>)

urlURLType == Type("special", "url.URL", 0, <<>>)

mailAddressType == Type("special", "mail.Address", 0, <<>>)

specialValueType == Type("specialValue", "conf.specialValue", 0, <<>>)

invalidType == Type("invalid", "", 0, <<>>)

panicType == Type("panic", "", 0, <<>>)

StructField(name, exported, t) == [Type("field", name, 0, <<t>>) EXCEPT !.exp = exported]

StructType(fields) == Type("struct", "", 0, fields)

MapOf(key, elem) == Type("map", "", 0, <<key, elem>>)

SliceOf(elem) == Type("slice", "", 0, <<elem>>)

ArrayOf(len, elem) == Type("array", "", len, <<elem>>)

PtrTo(elem) == Type("ptr", "", 0, <<elem>>)

Value(t, nil, n, elems) == [t |-> t, nil |-> nil, n |-> n, elems |-> elems]

\* The zero reflect.Value, which no variable holds.
ZeroValue == Value(invalidType, TRUE, 0, <<>>)

\* The outcome of a call that panics in package reflect.
Panic == Value(panicType, TRUE, 0, <<>>)

Panics(vs) == \E i \in DOMAIN vs : vs[i] = Panic

\* A value or, when one of the values it is made of panicked, the panic.
Built(t, nil, n, elems) == IF Panics(elems) THEN Panic ELSE Value(t, nil, n, elems)

\* The types of the list only: the interfaces are not looked at.
specialType_ListOnly(t) == t.k = "special"

\* A type that implements objconv.ValueDecoder or encoding.TextUnmarshaler
\* or is one of the list; conf.specialValue has the method DecodeValue.
specialType(t) == t.k \in {"special", "specialValue"}

isExported(f) == f.exp

StrConfKey == <<"c", "o", "n", "f", ":">>

StrObjconvKey == <<"o", "b", "j", "c", "o", "n", "v", ":">>

\* strings.Replace(s, old, new, -1) for a non-empty old.
RECURSIVE Replace(_, _, _)
Replace(s, old, new) ==
    IF Len(s) = 0 THEN <<>>
    ELSE IF HasPrefix(s, old) THEN new \o Replace(Drop(s, Len(old)), old, new)
    ELSE <<s[1]>> \o Replace(Tail(s), old, new)

RECURSIVE makeType(_)
makeStructField(f) ==
    [f EXCEPT !.elems = <<makeType(f.elems[1])>>, !.raw = Replace(f.raw, StrConfKey, StrObjconvKey)]

makeStructType(t) ==
    LET f == SelectSeq(t.elems, isExported)
    IN  StructType([i \in 1..Len(f) |-> makeStructField(f[i])])

makeType(t) ==
    IF specialType(t) THEN specialValueType
    ELSE CASE t.k \in {"struct", "specialValue"} -> makeStructType(t)
           [] t.k = "map" -> MapOf(makeType(t.elems[1]), makeType(t.elems[2]))
           [] t.k = "slice" -> SliceOf(makeType(t.elems[1]))
           [] t.k = "array" -> ArrayOf(t.len, makeType(t.elems[1]))
           [] t.k = "ptr" -> PtrTo(makeType(t.elems[1]))
           [] OTHER -> t

\* reflect.Zero(t), and reflect.New(t).Elem(): the zero specialValue wraps
\* the zero reflect.Value.
RECURSIVE Zero(_)
Zero(t) ==
    CASE t.k = "struct" -> Value(t, FALSE, 0, [i \in 1..Len(t.elems) |-> Zero(t.elems[i].elems[1])])
      [] t.k = "array" -> Value(t, FALSE, 0, [i \in 1..t.len |-> Zero(t.elems[1])])
      [] t.k \in {"map", "slice", "ptr"} -> Value(t, TRUE, 0, <<>>)
      [] t.k = "specialValue" -> Value(t, FALSE, 0, <<ZeroValue>>)
      [] OTHER -> Value(t, FALSE, 0, <<>>)

\* v1.Set(v2): v2 has to be a value of v1's type.
Set(v1, v2) == IF v2.t = v1.t THEN v2 ELSE Panic

copyValue(v) == Set(Zero(v.t), v)

setZero(v) == Set(v, Zero(v.t))

\* A wrapper of a wrapper of v.
Special_Wrapped(v) ==
    Built(specialValueType, FALSE, 0, <<Built(specialValueType, FALSE, 0, <<v>>)>>)

\* reflect.ValueOf(specialValue{v})
Special(v) == Built(specialValueType, FALSE, 0, <<v>>)

\* One entry of a map: a key and the element under it.
Entry(k, e) == Built(invalidType, FALSE, 0, <<k, e>>)

\* The value v1 holds after setValue(v1, v2).
RECURSIVE SetValue(_, _)
\* setStructValue goes over the fields of v2 by position: v1.Field(i)
\* panics when v1 has no field i, and the fields v1 has after the last
\* field of v2 stay as they are.
setStructValue(v1, v2) ==
    IF v1.t.k # "struct" \/ Len(v1.elems) < Len(v2.elems) THEN Panic
    ELSE Built(v1.t, FALSE, 0,
               [i \in 1..Len(v1.elems) |->
                   IF i \in 1..Len(v2.elems) THEN SetValue(v1.elems[i], v2.elems[i]) ELSE v1.elems[i]])

\* setMapValue makes a map first, so the nil map comes out empty.
setMapValue(v1, v2) ==
    IF v1.t.k # "map" THEN Panic
    ELSE Built(v1.t, FALSE, 0,
               [i \in 1..Len(v2.elems) |->
                   Entry(SetValue(Zero(v1.t.elems[1]), v2.elems[i].elems[1]),
                         SetValue(Zero(v1.t.elems[2]), v2.elems[i].elems[2]))])

\* setSliceValue makes a slice first, so the nil slice comes out empty.
setSliceValue(v1, v2) ==
    IF v1.t.k # "slice" THEN Panic
    ELSE Built(v1.t, FALSE, 0,
               [i \in 1..Len(v2.elems) |-> SetValue(Zero(v1.t.elems[1]), v2.elems[i])])

setArrayValue(v1, v2) ==
    IF v1.t.k # "array" \/ v1.t.len < v2.t.len THEN Panic
    ELSE Built(v1.t, FALSE, 0,
               [i \in 1..v1.t.len |->
                   IF i \in 1..v2.t.len THEN SetValue(Zero(v1.t.elems[1]), v2.elems[i]) ELSE v1.elems[i]])

\* A pointer that gives every pointer a fresh pointee, the nil one too.
setPtrValue_Alloc(v1, v2) ==
    IF v1.t.k # "ptr" THEN Panic
    ELSE Built(v1.t, FALSE, 0,
               <<IF v2.nil THEN Zero(v1.t.elems[1]) ELSE SetValue(Zero(v1.t.elems[1]), v2.elems[1])>>)

setPtrValue(v1, v2) ==
    IF v1.t.k # "ptr" THEN Panic
    ELSE IF v2.nil THEN Zero(v1.t)
    ELSE Built(v1.t, FALSE, 0, <<SetValue(Zero(v1.t.elems[1]), v2.elems[1])>>)

SetValue(v1, v2) ==
    IF v1 = Panic \/ v2 = Panic THEN Panic
    ELSE IF v1.t = specialValueType THEN Special(copyValue(v2))
    ELSE IF v2.t = specialValueType THEN Set(v1, v2.elems[1])
    ELSE CASE v2.t.k = "struct" -> setStructValue(v1, v2)
           [] v2.t.k = "map" -> setMapValue(v1, v2)
           [] v2.t.k = "slice" -> setSliceValue(v1, v2)
           [] v2.t.k = "array" -> setArrayValue(v1, v2)
           [] v2.t.k = "ptr" -> setPtrValue(v1, v2)
           [] OTHER -> Set(v1, v2)

\* makeValue(v1) of a value whose type is no special type itself.
MakeValue(v1) == SetValue(Zero(makeType(v1.t)), v1)

-----------------------------------------------------------------------------
(* Nodes: nil, a Scalar of a value or of none, an Array of nodes, a Map of  *)
(* named items.  A node is a record of its kind, v (the value of a scalar,  *)
(* 0 when it has none; the message of a panic) and items (the nodes of an   *)
(* array, the items of a map).                                              *)

Node(kind, v, items) == [kind |-> kind, v |-> v, items |-> items]

NilNode == Node("nil", 0, <<>>)

\* Scalar{}: the scalar of no value.
EmptyScalar == Node("invalid", 0, <<>>)

Scalar(v) == Node("scalar", v, <<>>)

Array(items) == Node("array", 0, items)

MapItem(name, value) == [name |-> name, value |-> value]

Map(items) == Node("map", 0, items)

\* The kind of a node: both scalars are of kind ScalarNode.
Kind(n) == IF n.kind = "invalid" THEN "scalar" ELSE n.kind

\* Map.Item: the value under the name, nil when the map has none.
Item(m, name) ==
    IF \E i \in 1..Len(m.items) : m.items[i].name = name
    THEN m.items[CHOOSE i \in 1..Len(m.items) : m.items[i].name = name].value
    ELSE NilNode

HasItem(m, name) == \E i \in 1..Len(m.items) : m.items[i].name = name

RECURSIVE EqualNode(_, _)
equalNodeArray(a1, a2) ==
    /\ Len(a1.items) = Len(a2.items)
    /\ \A i \in 1..Len(a1.items) : EqualNode(a1.items[i], a2.items[i])

\* A comparison of maps that does not compare their lengths.
equalNodeMap_NoLen(m1, m2) ==
    \A i \in 1..Len(m1.items) :
        /\ HasItem(m2, m1.items[i].name)
        /\ EqualNode(m1.items[i].value, Item(m2, m1.items[i].name))

equalNodeMap(m1, m2) ==
    /\ Len(m1.items) = Len(m2.items)
    /\ \A i \in 1..Len(m1.items) :
           /\ HasItem(m2, m1.items[i].name)
           /\ EqualNode(m1.items[i].value, Item(m2, m1.items[i].name))

equalNodeScalar(s1, s2) ==
    IF s1.kind = "invalid" \/ s2.kind = "invalid" THEN s1.kind = s2.kind
    ELSE s1.v = s2.v

EqualNode(n1, n2) ==
    IF n1 = NilNode \/ n2 = NilNode THEN n1 = NilNode /\ n2 = NilNode
    ELSE IF Kind(n1) # Kind(n2) THEN FALSE
    ELSE CASE Kind(n1) = "array" -> equalNodeArray(n1, n2)
           [] Kind(n1) = "map" -> equalNodeMap(n1, n2)
           [] OTHER -> equalNodeScalar(n1, n2)

(* MakeNode of a struct.  A field tagged conf:"_" is embedded: its fields   *)
(* become items of the map of the struct it is in.  Construction panics     *)
(* with a message of the struct type and the path when an item's name is    *)
(* taken and when the field tagged "_" is no anonymous struct.              *)

TaggedField(name, tag, anon, t) == [Type("field", name, 0, <<t>>) EXCEPT !.tag = tag, !.anon = anon]

Message(kind, type, fieldpath, name) == [kind |-> kind, type |-> type, path |-> fieldpath, name |-> name]

PanicNode(msg) == Node("panic", msg, <<>>)

RECURSIVE MakeNode(_)
RECURSIVE populate_NoDuplicateCheck(_, _, _, _, _)
\* A construction that pushes an item whether or not its name is taken.
populate_NoDuplicateCheck(root, fieldpath, t, i, m) ==
    IF m.kind = "panic" \/ i > Len(t.elems) THEN m
    ELSE LET ft == t.elems[i]
             p == Append(fieldpath, ft.name)
             name == IF ft.tag = "" THEN ft.name ELSE ft.tag
             node == MakeNode(ft.elems[1])
         IN  IF ~ft.exp \/ ft.tag = "-" THEN populate_NoDuplicateCheck(root, fieldpath, t, i + 1, m)
             ELSE IF ft.tag = "_"
             THEN (IF ft.elems[1].k # "struct" \/ ~ft.anon
                   THEN PanicNode(Message("embed", root, p, "_"))
                   ELSE populate_NoDuplicateCheck(root, fieldpath, t, i + 1,
                            populate_NoDuplicateCheck(root, p, ft.elems[1], 1, m)))
             ELSE IF node.kind = "panic" THEN node
             ELSE populate_NoDuplicateCheck(root, fieldpath, t, i + 1,
                                            Map(Append(m.items, MapItem(name, node))))

RECURSIVE populate(_, _, _, _, _)
\* The map m after the fields i, i + 1, ... of struct type t are added to
\* it; root is the struct type the map is made of, fieldpath the way
\* from it to t.
populate(root, fieldpath, t, i, m) ==
    IF m.kind = "panic" \/ i > Len(t.elems) THEN m
    ELSE LET ft == t.elems[i]
             p == Append(fieldpath, ft.name)
             name == IF ft.tag = "" THEN ft.name ELSE ft.tag
             node == MakeNode(ft.elems[1])
         IN  IF ~ft.exp \/ ft.tag = "-" THEN populate(root, fieldpath, t, i + 1, m)
             ELSE IF ft.tag = "_"
             THEN (IF ft.elems[1].k # "struct" \/ ~ft.anon
                   THEN PanicNode(Message("embed", root, p, "_"))
                   ELSE populate(root, fieldpath, t, i + 1, populate(root, p, ft.elems[1], 1, m)))
             ELSE IF HasItem(m, name) THEN PanicNode(Message("duplicate", root, p, name))
             ELSE IF node.kind = "panic" THEN node
             ELSE populate(root, fieldpath, t, i + 1, Map(Append(m.items, MapItem(name, node))))

\* A construction that gives every field of the struct an item of its own.
makeNodeStruct_Nested(t) ==
    Map([i \in 1..Len(t.elems) |-> MapItem(t.elems[i].name, MakeNode(t.elems[i].elems[1]))])

makeNodeStruct(t) == populate(t.name, <<t.name>>, t, 1, Map(<<>>))

\* MakeNode of the zero value of type t.
MakeNode(t) ==
    CASE t.k = "struct" -> makeNodeStruct(t)
      [] t.k = "array" -> Array([i \in 1..t.len |-> MakeNode(t.elems[1])])
      [] t.k = "slice" -> Array(<<>>)
      [] OTHER -> Scalar(0)

-----------------------------------------------------------------------------
(* The copies Load makes of the configuration: the shadow made of it        *)
(* before the sources are loaded, and the copy back into the zeroed         *)
(* configuration afterwards, with nothing loaded in between.                *)

MaxElems == 1   \* most elements of a slice and most entries of a map

ConfigType ==
    StructType(<< StructField("N", TRUE, intType),
                  StructField("D", TRUE, timeDurationType),
                  StructField("T", TRUE, PtrTo(netTCPAddrType)),
                  StructField("U", TRUE, SliceOf(netUDPAddrType)),
                  StructField("L", TRUE, MapOf(intType, urlURLType)),
                  StructField("E", TRUE, ArrayOf(1, mailAddressType)),
                  StructField("P", TRUE, PtrTo(StructType(<<StructField("N", TRUE, intType)>>))) >>)

\* A configuration with a field that is not exported, as the one of
\* TestDefaultLoader.
PrivateType ==
    StructType(<< StructField("unexported", FALSE, intType),
                  StructField("N", TRUE, intType) >>)

\* The sequences that take their i-th element from the i-th set.
RECURSIVE Product(_)
Product(sets) ==
    IF sets = <<>> THEN {<<>>}
    ELSE {<<x>> \o rest : x \in Head(sets), rest \in Product(Tail(sets))}

\* The sequences of at most n elements of S that rise by the number n.
Rising(S, n) ==
    {s \in SeqsUpTo(S, n) : \A i \in 1..(Len(s) - 1) : s[i].elems[1].n < s[i + 1].elems[1].n}

\* The values of type t the configuration is tried with.
RECURSIVE ValuesOf(_)
ValuesOf(t) ==
    CASE t.k = "struct" ->
             {Value(t, FALSE, 0, s) : s \in Product([i \in 1..Len(t.elems) |-> ValuesOf(t.elems[i].elems[1])])}
      [] t.k = "array" ->
             {Value(t, FALSE, 0, s) : s \in [1..t.len -> ValuesOf(t.elems[1])]}
      [] t.k = "ptr" ->
             {Zero(t)} \cup {Value(t, FALSE, 0, <<e>>) : e \in ValuesOf(t.elems[1])}
      [] t.k = "slice" ->
             {Zero(t)} \cup {Value(t, FALSE, 0, s) : s \in SeqsUpTo(ValuesOf(t.elems[1]), MaxElems)}
      [] t.k = "map" ->
             {Zero(t)} \cup {Value(t, FALSE, 0, s) :
                                s \in Rising({Entry(k, e) : k \in ValuesOf(t.elems[1]),
                                                            e \in ValuesOf(t.elems[2])}, MaxElems)}
      [] OTHER -> {Value(t, FALSE, n, <<>>) : n \in {0, MaxVal}}

\* v2 := makeValue(v1)
MakeShadow ==
    /\ pc = "value"
    /\ shadow' = MakeValue(cfg)
    /\ pc' = IF MakeValue(cfg) = Panic THEN "panic" ELSE "shadow"
    /\ UNCHANGED <<ld, cfgNil, rules, fs, cfg0, cfg, path, idx, cmd, args, err, exit, trace>>

\* setZero(v1)
ZeroConfig ==
    /\ pc = "shadow"
    /\ cfg' = setZero(cfg)
    /\ pc' = "zeroed"
    /\ UNCHANGED <<ld, cfgNil, rules, fs, cfg0, shadow, path, idx, cmd, args, err, exit, trace>>

\* setValue(v1, v2)
CopyBack ==
    /\ pc = "zeroed"
    /\ cfg' = SetValue(cfg, shadow)
    /\ pc' = "copied"
    /\ UNCHANGED <<ld, cfgNil, rules, fs, cfg0, shadow, path, idx, cmd, args, err, exit, trace>>

NextValue == MakeShadow \/ ZeroConfig \/ CopyBack

InitValue ==
    /\ ld = Loader(StrTest, <<>>, <<>>, <<>>)
    /\ cfgNil = FALSE
    /\ rules = {}
    /\ fs = Unreadable
    /\ cfg0 \in ValuesOf(ConfigType) \cup ValuesOf(PrivateType)
    /\ cfg = cfg0
    /\ shadow = ZeroValue
    /\ path = <<>>
    /\ pc = "value"
    /\ idx = 1
    /\ cmd = <<>>
    /\ args = <<>>
    /\ err = Nil
    /\ exit = "none"
    /\ trace = <<>>

SpecValue == InitValue /\ [][NextValue]_vars

-----------------------------------------------------------------------------
(* The key of the environment source, computed from a name and computed     *)
(* again from the key: the names of the snakecase tests and every short     *)
(* name of letters, digits, underscores and dashes.                         *)

MaxName == 4   \* the longest name tried, the tests' names apart

NameChars == {"a", "b", "A", "B", "1", "_", "-"}

StrHelloWorld == <<"H", "e", "l", "l", "o", "W", "o", "r", "l", "d">>

StrHELLO_WORLD == <<"H", "E", "L", "L", "O", "_", "W", "O", "R", "L", "D">>

TestNames ==
    {StrHelloWorld, StrHELLO_WORLD,
     <<"H", "E", "L", "L", "O", "W", "o", "r", "l", "d">>,
     <<"H", "e", "l", "l", "o", "1", "W", "o", "r", "l", "d", "2">>,
     <<"H", "e", "l", "l", "o", "W", "O", "R", "L", "D">>,
     <<"t", "e", "s", "t", "_", "P", "_", "x">>,
     <<"_", "_", "H", "e", "l", "l", "o", "_", "_", "W", "o", "r", "l", "d", "_", "_">>,
     <<"h", "e", "l", "l", "o", "-", "w", "o", "r", "l", "d">>}

Names == SeqsUpTo(NameChars, MaxName) \cup TestNames

\* The key is computed from the name, and once more from the key.
MakeKey ==
    /\ pc = "name"
    /\ idx < 3
    /\ shadow' = cfg
    /\ cfg' = snakecaseUpper(cfg)
    /\ idx' = idx + 1
    /\ UNCHANGED <<ld, cfgNil, rules, fs, cfg0, path, pc, cmd, args, err, exit, trace>>

NextKey == MakeKey

InitKey ==
    /\ ld = Loader(StrTest, <<>>, <<>>, <<>>)
    /\ cfgNil = FALSE
    /\ rules = {}
    /\ fs = Unreadable
    /\ cfg0 \in Names
    /\ cfg = cfg0
    /\ shadow = <<>>
    /\ path = <<>>
    /\ pc = "name"
    /\ idx = 1
    /\ cmd = <<>>
    /\ args = <<>>
    /\ err = Nil
    /\ exit = "none"
    /\ trace = <<>>

SpecKey == InitKey /\ [][NextKey]_vars

-----------------------------------------------------------------------------
(* MakeNode of structs that embed structs: the structs of the embedding     *)
(* tests, and every chain of structs up to MaxDepth deep in which a struct  *)
(* holds one struct of the level below (embedded with conf:"_", named and   *)
(* tagged "_", or embedded without a tag) and one field of its own.        *)

MaxDepth == 3   \* the deepest chain of structs in structs

TypeNames == <<"Smallest", "Small", "Medium", "Matroska", "Larger", "Largest">>

LeafNames == <<"SmallestOne", "SmallOne", "MediumOne", "LargeOne", "LargerOne", "LargestOne">>

Leaf(name) == TaggedField(name, "", FALSE, stringType)

Struct(name, fields) == [StructType(fields) EXCEPT !.name = name]

\* The ways a struct holds struct t.
Holds(t) == {TaggedField(t.name, "_", TRUE, t),
             TaggedField("Thing", "_", FALSE, t),
             TaggedField(t.name, "", TRUE, t)}

\* A field of its own of the struct at depth d: a string of the name of
\* its depth or of the name Stuff and, in the innermost struct, a string
\* tagged "_".
Own(d) == {Leaf(LeafNames[d + 1]), Leaf("Stuff")}
              \cup (IF d = 0 THEN {TaggedField("Str", "_", FALSE, stringType)} ELSE {})

RECURSIVE Chain(_)
Chain(d) ==
    IF d = 0 THEN {Struct(TypeNames[1], <<f>>) : f \in Own(0)}
    ELSE {Struct(TypeNames[d + 1], <<h, f>>) : h \in UNION {Holds(t) : t \in Chain(d - 1)}, f \in Own(d)}

Smallest == Struct("Smallest", <<Leaf("SmallestOne")>>)

Small == Struct("Small", <<TaggedField("Smallest", "_", TRUE, Smallest), Leaf("SmallOne")>>)

Medium == Struct("Medium", <<TaggedField("Small", "_", TRUE, Small), Leaf("MediumOne")>>)

Matroska == Struct("Matroska", <<TaggedField("Medium", "_", TRUE, Medium), Leaf("LargeOne")>>)

Thing1 == Struct("Thing1", <<Leaf("Stuff")>>)

Thing2 == Struct("Thing2", <<Leaf("Stuff")>>)

ConflictingName ==
    Struct("ConflictingName", <<TaggedField("Thing1", "_", TRUE, Thing1),
                                TaggedField("Thing2", "_", TRUE, Thing2)>>)

EmbedPrimitive == Struct("EmbedPrimitive", <<TaggedField("Str", "_", FALSE, stringType)>>)

EmbedNamedStruct == Struct("EmbedNamedStruct", <<TaggedField("Thing", "_", FALSE, Thing1)>>)

StructTypes ==
    {ConflictingName, EmbedPrimitive, EmbedNamedStruct} \cup UNION {Chain(d) : d \in 0..MaxDepth}

\* makeNodeStruct of the zero value of the struct type in cfg.
MakeNodeStruct ==
    /\ pc = "type"
    /\ shadow' = makeNodeStruct(cfg)
    /\ pc' = IF makeNodeStruct(cfg).kind = "panic" THEN "panic" ELSE "node"
    /\ UNCHANGED <<ld, cfgNil, rules, fs, cfg0, cfg, path, idx, cmd, args, err, exit, trace>>

NextNode == MakeNodeStruct

InitNode ==
    /\ ld = Loader(StrTest, <<>>, <<>>, <<>>)
    /\ cfgNil = FALSE
    /\ rules = {}
    /\ fs = Unreadable
    /\ cfg0 \in StructTypes
    /\ cfg = cfg0
    /\ shadow = NilNode
    /\ path = <<>>
    /\ pc = "type"
    /\ idx = 1
    /\ cmd = <<>>
    /\ args = <<>>
    /\ err = Nil
    /\ exit = "none"
    /\ trace = <<>>

SpecNode == InitNode /\ [][NextNode]_vars

-----------------------------------------------------------------------------
(* EqualNode of two nodes: nil, the scalars, and the arrays and maps of     *)
(* at most MaxItems of them, as in the equality tests.                      *)

MaxItems == 2   \* most nodes in an array and most items in a map

Scalars == {NilNode, EmptyScalar, Scalar(1), Scalar(MaxVal)}

ItemsOf(names) == {[i \in 1..Len(names) |-> MapItem(names[i], vs[i])] : vs \in [1..Len(names) -> Scalars]}

\* The sequences of at most n names, no name twice.
NameSeqs(n) == {ns \in SeqsUpTo({"A", "B"}, n) : \A i, j \in 1..Len(ns) : ns[i] = ns[j] => i = j}

Nodes ==
    Scalars \cup {Array(s) : s \in SeqsUpTo(Scalars, MaxItems)}
            \cup {Map(s) : s \in UNION {ItemsOf(ns) : ns \in NameSeqs(MaxItems)}}

\* EqualNode of the two nodes, either way, and of the first with itself.
Compare ==
    /\ pc = "nodes"
    /\ shadow' = [forth |-> EqualNode(cfg0, cfg), back |-> EqualNode(cfg, cfg0), self |-> EqualNode(cfg0, cfg0)]
    /\ pc' = "compared"
    /\ UNCHANGED <<ld, cfgNil, rules, fs, cfg0, cfg, path, idx, cmd, args, err, exit, trace>>

NextEqual == Compare

InitEqual ==
    /\ ld = Loader(StrTest, <<>>, <<>>, <<>>)
    /\ cfgNil = FALSE
    /\ rules = {}
    /\ fs = Unreadable
    /\ cfg0 \in Nodes
    /\ cfg \in Nodes
    /\ shadow = <<>>
    /\ path = <<>>
    /\ pc = "nodes"
    /\ idx = 1
    /\ cmd = <<>>
    /\ args = <<>>
    /\ err = Nil
    /\ exit = "none"
    /\ trace = <<>>

SpecEqual == InitEqual /\ [][NextEqual]_vars

-----------------------------------------------------------------------------
(* Load from config-map sources: directories with entries that match a      *)
(* field and can be decoded, match and cannot, match no field, are hidden,  *)
(* or cannot be read, and a directory that cannot be opened.                *)

Entry1(name, data) == name \o <<"=">> \o data

Dirs == {<<>>,
         <<Entry1(<<"A">>, <<DigitChar(MaxVal), "\n">>)>>,
         <<Entry1(<<"A">>, <<"x">>)>>,
         <<Entry1(<<"b">>, <<"1">>), Entry1(<<"A">>, <<"x">>)>>,
         <<Entry1(<<"X">>, <<"x">>), Entry1(<<".", "A">>, <<"x">>)>>,
         <<Entry1(<<"t", "e", "s", "t", "_", "a">>, <<"x">>)>>,
         <<<<"A">>>>}

ConfigMapSources ==
    {NewKubernetesConfigMapSource(<<>>, FALSE, d) : d \in Dirs}
        \cup {NewKubernetesConfigMapSource(StrTest, FALSE, d) : d \in Dirs}
        \cup {NewKubernetesConfigMapSource(<<>>, TRUE, <<>>)}
        \cup {SourceFunc([id \in {"A"} |-> 1], FALSE)}

InitConfigMap ==
    \E a \in {<<>>, <<FlagEq(<<"A">>, <<"1">>)>>}, ss \in SeqsUpTo(ConfigMapSources, MaxSources),
       c \in Defaults :
        Start(Loader(StrTest, a, <<>>, ss), FALSE, c, {}, Unreadable)

SpecConfigMap == InitConfigMap /\ [][Next]_vars

-----------------------------------------------------------------------------
(* The shadow value between makeValue and the copy back, written to by the  *)
(* decoders of the sources and of the flags: idx counts the writes.         *)

MaxWrites == 2   \* most values decoded into the shadow value

SpecialConfigType ==
    StructType(<< StructField("D", TRUE, timeDurationType),
                  StructField("T", TRUE, PtrTo(netTCPAddrType)),
                  StructField("U", TRUE, SliceOf(netUDPAddrType)),
                  StructField("S", TRUE, StructType(<<StructField("N", TRUE, intType)>>)) >>)

\* specialValue.DecodeValue: s.v.Addr() panics on the zero reflect.Value;
\* the value decoded is stored in the value s.v refers to.
DecodeValue(s, n) ==
    IF s.elems[1] = ZeroValue THEN Panic
    ELSE Value(s.t, FALSE, 0, <<[s.elems[1] EXCEPT !.n = n]>>)

\* The values v may hold after a decoder was given a pointer to v: the
\* decoder calls DecodeValue on a ValueDecoder, decodes into one field of a
\* struct, allocates what a nil pointer lacks, and makes the slice anew.
RECURSIVE Decodings(_)
Decodings(v) ==
    CASE v.t = specialValueType -> {DecodeValue(v, n) : n \in {0, MaxVal}}
      [] v.t.k = "struct" ->
             UNION {{Built(v.t, FALSE, 0, [v.elems EXCEPT ![i] = d]) : d \in Decodings(v.elems[i])} :
                        i \in 1..Len(v.elems)}
      [] v.t.k = "ptr" ->
             {Built(v.t, FALSE, 0, <<d>>) :
                  d \in Decodings(IF v.nil THEN Zero(v.t.elems[1]) ELSE v.elems[1])}
      [] v.t.k = "slice" ->
             {Value(v.t, FALSE, 0, <<>>)} \cup
             {Built(v.t, FALSE, 0, <<d>>) : d \in Decodings(Zero(v.t.elems[1]))}
      [] OTHER -> {Value(v.t, FALSE, n, <<>>) : n \in {0, MaxVal}}

\* source.Load(cfg.Addr().Interface()) and flagValue.Set
DecodeShadow ==
    /\ pc = "shadow"
    /\ idx <= MaxWrites
    /\ \E d \in Decodings(shadow) :
           /\ shadow' = d
           /\ pc' = IF d = Panic THEN "panic" ELSE "shadow"
    /\ idx' = idx + 1
    /\ UNCHANGED <<ld, cfgNil, rules, fs, cfg0, cfg, path, cmd, args, err, exit, trace>>

NextSpecial == MakeShadow \/ DecodeShadow \/ ZeroConfig \/ CopyBack

InitSpecial ==
    /\ ld = Loader(StrTest, <<>>, <<>>, <<>>)
    /\ cfgNil = FALSE
    /\ rules = {}
    /\ fs = Unreadable
    /\ cfg0 \in ValuesOf(SpecialConfigType)
    /\ cfg = cfg0
    /\ shadow = ZeroValue
    /\ path = <<>>
    /\ pc = "value"
    /\ idx = 1
    /\ cmd = <<>>
    /\ args = <<>>
    /\ err = Nil
    /\ exit = "none"
    /\ trace = <<>>

SpecSpecial == InitSpecial /\ [][NextSpecial]_vars

-----------------------------------------------------------------------------
(* makeType of a type, of the same type again and of the shadow type it     *)
(* gave: cfg holds the type, shadow, path and args the three results.       *)

MaxNest == 2   \* how deep the types are made of types

\* Tags as they are written: none, a conf tag, an objconv tag, a tag whose
\* value reads conf:, and a tag that reads conf: once it is replaced in.
RawTags == {<<>>,
            StrConfKey \o <<"x">>,
            StrObjconvKey \o <<"x">>,
            <<"j", ":">> \o StrConfKey \o <<"x">>,
            <<"c">> \o StrConfKey \o <<"o", "n", "f", ":">>}

RawField(name, exported, raw, t) == [StructField(name, exported, t) EXCEPT !.raw = raw]

RECURSIVE TypesOf(_)
TypesOf(d) ==
    IF d = 0 THEN {intType, stringType, timeDurationType, netTCPAddrType}
    ELSE LET T == TypesOf(d - 1)
         IN  T \cup {PtrTo(t) : t \in T}
               \cup {SliceOf(t) : t \in T}
               \cup {ArrayOf(1, t) : t \in T}
               \cup {MapOf(stringType, t) : t \in T}
               \cup {StructType(<<RawField("F", TRUE, <<>>, t)>>) : t \in T}
               \cup {StructType(<<RawField("f", FALSE, <<>>, intType), RawField("F", TRUE, <<>>, t)>>) : t \in T}
               \cup {StructType(<<RawField("F", TRUE, raw, intType)>>) : raw \in RawTags}

\* t2 := makeType(t)
MakeType ==
    /\ pc = "type"
    /\ shadow' = makeType(cfg)
    /\ pc' = "made"
    /\ UNCHANGED <<ld, cfgNil, rules, fs, cfg0, cfg, path, idx, cmd, args, err, exit, trace>>

\* makeType(t) once more
MakeTypeAgain ==
    /\ pc = "made"
    /\ path' = makeType(cfg)
    /\ pc' = "again"
    /\ UNCHANGED <<ld, cfgNil, rules, fs, cfg0, cfg, shadow, idx, cmd, args, err, exit, trace>>

\* makeType(t2)
MakeTypeOfShadow ==
    /\ pc = "again"
    /\ args' = makeType(shadow)
    /\ pc' = "shadowed"
    /\ UNCHANGED <<ld, cfgNil, rules, fs, cfg0, cfg, shadow, path, idx, cmd, err, exit, trace>>

NextType == MakeType \/ MakeTypeAgain \/ MakeTypeOfShadow

InitType ==
    /\ ld = Loader(StrTest, <<>>, <<>>, <<>>)
    /\ cfgNil = FALSE
    /\ rules = {}
    /\ fs = Unreadable
    /\ cfg0 \in TypesOf(MaxNest) \cup {specialValueType}
    /\ cfg = cfg0
    /\ shadow = invalidType
    /\ path = invalidType
    /\ pc = "type"
    /\ idx = 1
    /\ cmd = <<>>
    /\ args = invalidType
    /\ err = Nil
    /\ exit = "none"
    /\ trace = <<>>

SpecType == InitType /\ [][NextType]_vars

-----------------------------------------------------------------------------
(* Load of a configuration that holds references.  A map, a slice and a     *)
(* pointer carry in n the address of what they refer to: 0 for what the     *)
(* package allocated itself, 1 and up for what the caller allocated.  fs    *)
(* is the memory at the caller's addresses, cfg0 the configuration and the  *)
(* memory before the call, idx counts the values decoded into the shadow.   *)

byteType == Type("uint8", "", 0, <<>>)

\* A map type whose method UnmarshalText (a value receiver) stores the text
\* in the map: a special type, since it implements encoding.TextUnmarshaler.
textSetType == Type("special", "Set", 0, <<>>)

FrameType ==
    StructType(<< StructField("N", TRUE, intType),
                  StructField("M", TRUE, MapOf(intType, intType)),
                  StructField("A", TRUE, netTCPAddrType),
                  StructField("S", TRUE, textSetType) >>)

\* Where the caller keeps the bytes of A.IP, the map S and the map M.
CallerAddress == [IP |-> 1, Set |-> 2, Map |-> 3]

Memory == [{CallerAddress.IP, CallerAddress.Set} -> {0, MaxVal}]

\* The configurations: M is nil or the caller's map of one entry, A.IP is
\* nil or the caller's bytes, S is nil or the caller's map.
FrameConfigs ==
    {Value(FrameType, FALSE, 0,
           << Value(intType, FALSE, n, <<>>),
              m,
              Value(netTCPAddrType, FALSE, port, <<ip>>),
              set >>) :
        n \in {0, MaxVal},
        m \in {Zero(MapOf(intType, intType)),
               Value(MapOf(intType, intType), FALSE, CallerAddress.Map,
                     <<Entry(Value(intType, FALSE, 0, <<>>), Value(intType, FALSE, MaxVal, <<>>))>>)},
        port \in {0, MaxVal},
        ip \in {Zero(SliceOf(byteType)), Value(SliceOf(byteType), FALSE, CallerAddress.IP, <<>>)},
        set \in {Value(textSetType, TRUE, 0, <<>>), Value(textSetType, FALSE, CallerAddress.Set, <<>>)}}

\* The caller's addresses that v and the values it is made of refer to.
RECURSIVE Addresses(_)
Addresses(v) ==
    (IF v.n >= 1 /\ (v.t.k \in {"map", "slice", "ptr"} \/ v.t = textSetType) THEN {v.n} ELSE {}) \cup
    UNION {Addresses(v.elems[i]) : i \in 1..Len(v.elems)}

\* Loader.Load up to makeValue: the check of the command.
FrameBegin ==
    /\ pc = "start"
    /\ IF Len(ld.commands) # 0 /\ Len(ld.args) = 0
       THEN /\ Done(Error("missing command", <<>>))
            /\ UNCHANGED <<ld, cmd, shadow>>
       ELSE IF Len(ld.commands) # 0 /\ ~IsCommand(ld.commands, ld.args[1])
       THEN /\ Done(Error("unknown command", ld.args[1]))
            /\ UNCHANGED <<ld, cmd, shadow>>
       ELSE /\ pc' = "merge"
            /\ cmd' = IF Len(ld.commands) # 0 THEN ld.args[1] ELSE <<>>
            /\ ld' = IF Len(ld.commands) # 0
                     THEN [ld EXCEPT !.args = Tail(ld.args)] ELSE ld
            /\ shadow' = MakeValue(cfg)
            /\ UNCHANGED err
    /\ UNCHANGED <<cfgNil, rules, fs, cfg0, cfg, path, idx, args, exit, trace>>

\* A flag or a source decodes the number n into field i of the shadow
\* value: an int is stored, a map is the shadow's own and gets the entry,
\* DecodeValue stores a new net.TCPAddr in the value of the wrapper, and
\* UnmarshalText of the Set stores in the map the wrapper's value refers to.
FrameDecode(i, n) ==
    LET f == shadow.elems[i]
        number == Value(intType, FALSE, n, <<>>)
    IN  IF f.t = specialValueType /\ f.elems[1].t = textSetType
        THEN /\ ~f.elems[1].nil
             /\ fs' = IF f.elems[1].n \in DOMAIN fs THEN [fs EXCEPT ![f.elems[1].n] = n] ELSE fs
             /\ UNCHANGED shadow
        ELSE /\ shadow' =
                   [shadow EXCEPT !.elems[i] =
                       IF f.t = specialValueType
                       THEN Special(Value(netTCPAddrType, FALSE, n, <<Value(SliceOf(byteType), FALSE, 0, <<>>)>>))
                       ELSE IF f.t.k = "map"
                       THEN Value(f.t, FALSE, f.n, <<Entry(number, number)>>)
                       ELSE number]
             /\ UNCHANGED fs

\* Loader.load: one write by flagValue.Set or by a source.
FrameWrite ==
    /\ pc = "merge"
    /\ idx <= MaxWrites
    /\ \E i \in 1..Len(shadow.elems), n \in {0, MaxVal} : FrameDecode(i, n)
    /\ idx' = idx + 1
    /\ UNCHANGED <<ld, cfgNil, rules, cfg0, cfg, path, pc, cmd, args, err, exit, trace>>

\* Loader.load returns an error of the flags or of a source, and Load
\* returns it.
FrameFail ==
    /\ pc = "merge"
    /\ \E e \in {Error("flag provided but not defined", StrX), Error("source failed", <<>>)} : Done(e)
    /\ UNCHANGED <<ld, cfgNil, rules, fs, cfg0, cfg, shadow, path, idx, cmd, args, exit, trace>>

\* Loader.load returns no error: setZero(v1); setValue(v1, v2).
FrameCopyBack ==
    /\ pc = "merge"
    /\ cfg' = SetValue(setZero(cfg), shadow)
    /\ Done(Nil)
    /\ UNCHANGED <<ld, cfgNil, rules, fs, cfg0, shadow, path, idx, cmd, args, exit, trace>>

NextFrame == FrameBegin \/ FrameWrite \/ FrameFail \/ FrameCopyBack

InitFrame ==
    /\ ld \in {Loader(StrTest, a, c, <<>>) : a \in {<<>>, <<StrRun>>, <<StrX>>}, c \in {<<>>, <<StrRun>>}}
    /\ cfgNil = FALSE
    /\ rules = {}
    /\ fs \in Memory
    /\ cfg \in FrameConfigs
    /\ cfg0 = [cfg |-> cfg, fs |-> fs]
    /\ shadow = ZeroValue
    /\ path = <<>>
    /\ pc = "start"
    /\ idx = 1
    /\ cmd = <<>>
    /\ args = <<>>
    /\ err = Nil
    /\ exit = "none"
    /\ trace = <<>>

SpecFrame == InitFrame /\ [][NextFrame]_vars

-----------------------------------------------------------------------------
(* The text of a network address decoded into a net.TCPAddr, a net.UDPAddr  *)
(* or a conf.NetAddr.  cfg is the type of the field, cfg0 the parts the     *)
(* text is made of, args the text, shadow the address the field holds.      *)

MaxPort == 65535

StrIPv4 == <<"1", ".", "2", ".", "3", ".", "4">>

StrIPv6 == <<":", ":", "1">>

HostResult(host, port, e) == [host |-> host, port |-> port, err |-> e]

\* net.SplitHostPort
SplitHostPort(s) ==
    LET i == LastIndexByte(s, ":")
        missingPort == HostResult(<<>>, <<>>, Error("missing port in address", s))
        tooManyColons == HostResult(<<>>, <<>>, Error("too many colons in address", s))
        bracket == s[1] = "["
        end == IndexByte(s, "]")
        host == IF bracket THEN SubSeq(s, 2, end - 1) ELSE SubSeq(s, 1, i - 1)
    IN  IF i = 0 THEN missingPort
        ELSE IF bracket /\ end = 0 THEN HostResult(<<>>, <<>>, Error("missing ']' in address", s))
        ELSE IF bracket /\ end = Len(s) THEN missingPort
        ELSE IF bracket /\ end + 1 # i
        THEN (IF s[end + 1] = ":" THEN tooManyColons ELSE missingPort)
        ELSE IF ~bracket /\ IndexByte(host, ":") # 0 THEN tooManyColons
        ELSE IF IndexByte(Drop(s, IF bracket THEN 1 ELSE 0), "[") # 0
        THEN HostResult(<<>>, <<>>, Error("unexpected '[' in address", s))
        ELSE IF IndexByte(Drop(s, IF bracket THEN end ELSE 0), "]") # 0
        THEN HostResult(<<>>, <<>>, Error("unexpected ']' in address", s))
        ELSE HostResult(host, Drop(s, i), Nil)

\* net.ParseIP on the addresses tried: the IPv4 address, the IPv6 address,
\* and the IPv6 address followed by one more group of digits; nil is <<>>.
ParseIP(h) ==
    IF \/ h \in {StrIPv4, StrIPv6}
       \/ /\ HasPrefix(h, StrIPv6 \o <<":">>)
          /\ Len(h) - Len(StrIPv6) - 1 \in 1..4
          /\ IsNumber(Drop(h, Len(StrIPv6) + 1))
    THEN h ELSE <<>>

\* strconv.Atoi: digits after an optional sign.
Atoi(p) ==
    LET signed == Len(p) > 0 /\ p[1] \in {"+", "-"}
        digits == IF signed THEN Tail(p) ELSE p
    IN  [ok |-> IsNumber(digits),
         n  |-> IF ~IsNumber(digits) THEN 0
                ELSE IF signed /\ p[1] = "-" THEN 0 - NatOf(digits) ELSE NatOf(digits)]

NetAddr(ip, port, zone) == [ip |-> ip, port |-> port, zone |-> zone]

AddrResult(ip, port, zone, e) == [a |-> NetAddr(ip, port, zone), err |-> e]

\* parseNetAddr: err is a result of the function, and the error of
\* SplitHostPort stays in it unless a later step stores another.
parseNetAddr(s) ==
    LET r == SplitHostPort(s)
        h0 == IF r.err # Nil THEN s ELSE r.host
        p == IF r.err # Nil THEN <<>> ELSE r.port
        off == IndexByte(h0, "%")
        h == IF off # 0 THEN SubSeq(h0, 1, off - 1) ELSE h0
        zone == IF off # 0 THEN Drop(h0, off) ELSE <<>>
        ip == IF Len(h0) # 0 THEN ParseIP(h) ELSE <<>>
    IN  IF Len(h0) # 0 /\ ip = <<>>
        THEN AddrResult(ip, 0, zone, Error("bad IP address", s))
        ELSE IF Len(p) # 0 /\ (~Atoi(p).ok \/ Atoi(p).n < 0 \/ Atoi(p).n > MaxPort)
        THEN AddrResult(ip, Atoi(p).n, zone, Error("bad port number", s))
        ELSE AddrResult(ip, IF Len(p) # 0 THEN Atoi(p).n ELSE 0, zone, r.err)

\* ParseNetAddr of conf.NetAddr: err is a variable of the function, the
\* errors return NetAddr{} and nil is returned at the end.
ParseNetAddr(s) ==
    LET r == SplitHostPort(s)
        h0 == IF r.err # Nil THEN s ELSE r.host
        p == IF r.err # Nil THEN <<>> ELSE r.port
        off == IndexByte(h0, "%")
        h == IF off # 0 THEN SubSeq(h0, 1, off - 1) ELSE h0
        zone == IF off # 0 THEN Drop(h0, off) ELSE <<>>
        ip == IF Len(h0) # 0 THEN ParseIP(h) ELSE <<>>
    IN  IF Len(h0) # 0 /\ ip = <<>>
        THEN AddrResult(<<>>, 0, <<>>, Error("bad IP address", s))
        ELSE IF Len(p) # 0 /\ (~Atoi(p).ok \/ Atoi(p).n < 0 \/ Atoi(p).n > MaxPort)
        THEN AddrResult(<<>>, 0, <<>>, Error("bad port number", s))
        ELSE AddrResult(ip, IF Len(p) # 0 THEN Atoi(p).n ELSE 0, zone, Nil)

StrTCPAddr == "net.TCPAddr"

StrUDPAddr == "net.UDPAddr"

StrNetAddr == "conf.NetAddr"

\* specialValue.DecodeValue of a *net.TCPAddr and of a *net.UDPAddr:
\* the address is stored when decodeNetAddr returns no error.
DecodeNetAddr ==
    /\ pc = "text"
    /\ cfg \in {StrTCPAddr, StrUDPAddr}
    /\ LET r == parseNetAddr(args) IN
       /\ err' = r.err
       /\ shadow' = IF r.err # Nil THEN shadow ELSE r.a
    /\ pc' = "decoded"
    /\ UNCHANGED <<ld, cfgNil, rules, fs, cfg0, cfg, path, idx, cmd, args, exit, trace>>

\* NetAddr.UnmarshalText: *a, err = ParseNetAddr(string(b))
UnmarshalNetAddr ==
    /\ pc = "text"
    /\ cfg = StrNetAddr
    /\ LET r == ParseNetAddr(args) IN
       /\ err' = r.err
       /\ shadow' = r.a
    /\ pc' = "decoded"
    /\ UNCHANGED <<ld, cfgNil, rules, fs, cfg0, cfg, path, idx, cmd, args, exit, trace>>

NextNetAddr == DecodeNetAddr \/ UnmarshalNetAddr

NoPort == <<"n", "o", "n", "e">>

\* The parts of a text: a host, a zone, whether they stand in brackets,
\* and the port after the colon, or no colon and no port.
AddrParts ==
    [host : {<<>>, StrIPv4, StrIPv6, <<"h">>},
     zone : {<<>>, <<"z">>},
     brackets : BOOLEAN,
     port : {NoPort, <<>>, <<"8", "0">>, <<"+", "8">>, <<"x">>, <<"-", "1">>,
             <<"6", "5", "5", "3", "5">>, <<"6", "5", "5", "3", "6">>}]

AddrText(c) ==
    LET host == c.host \o (IF c.zone # <<>> THEN <<"%">> \o c.zone ELSE <<>>)
    IN  (IF c.brackets THEN <<"[">> \o host \o <<"]">> ELSE host)
        \o (IF c.port = NoPort THEN <<>> ELSE <<":">> \o c.port)

InitNetAddr ==
    /\ ld = Loader(StrTest, <<>>, <<>>, <<>>)
    /\ cfgNil = FALSE
    /\ rules = {}
    /\ fs = Unreadable
    /\ cfg0 \in AddrParts
    /\ cfg \in {StrTCPAddr, StrUDPAddr, StrNetAddr}
    /\ shadow = NetAddr(StrIPv4, 1, <<>>)
    /\ path = <<>>
    /\ pc = "text"
    /\ idx = 1
    /\ cmd = <<>>
    /\ args = AddrText(cfg0)
    /\ err = Nil
    /\ exit = "none"
    /\ trace = <<>>

SpecNetAddr == InitNetAddr /\ [][NextNetAddr]_vars

-----------------------------------------------------------------------------
(* kubernetesSubscriber.  Subscribe takes a snapshot of the directory and   *)
(* starts a goroutine that polls the directory on a ticker and calls f for  *)
(* each key whose value is not the one of the snapshot it keeps.            *)
(* Here fs is the directory, shadow holds one record per call of Subscribe  *)
(* on the subscriber (the goroutine it started, its ticker, its context),   *)
(* args holds the calls of Subscribe the program has yet to make and idx    *)
(* counts the changes made to the directory.                                *)

MaxChanges == 2   \* changes made to the directory

Goroutines == {1, 2}

FileNames == {"A", "B"}

FileData == {<<"1">>, <<"1", "\n">>, <<"2">>}

File(name, data) == [name |-> name, data |-> data]

\* The directory and its files.
Directory(files) == [kind |-> "dir", w |-> files, bad |-> FALSE]

\* strings.TrimSuffix(s, "\n")
TrimSuffix(s) ==
    IF Len(s) > 0 /\ s[Len(s)] = "\n" THEN SubSeq(s, 1, Len(s) - 1) ELSE s

\* An entry of a map[string]string, and the call f(key, value).
KeyValue(key, value) == [key |-> key, value |-> value]

SnapshotResult(mp, e) == [mp |-> mp, err |-> e]

\* What the files of the directory hold, without the trailing newline.
Content(dir) == {KeyValue(f.name, TrimSuffix(f.data)) : f \in dir.w}

\* kubernetesSubscriber.Snapshot: every file of the directory under its name;
\* an error and no map when the directory or a file cannot be read (ok is
\* FALSE), which is up to the volume at each call.
Snapshot(dir, ok) ==
    IF ok THEN SnapshotResult(Content(dir), Nil)
    ELSE SnapshotResult({}, Error("open", <<>>))

MapKeys(mp) == {e.key : e \in mp}

MapIndex(mp, key) == (CHOOSE e \in mp : e.key = key).value

\* The calls of the first loop: the keys of newState that state does not
\* hold or holds with another value, with their new value.
Added(state, newState) ==
    {e \in newState : e.key \notin MapKeys(state) \/ MapIndex(state, e.key) # e.value}

\* The calls of the second loop: the keys of state that newState does not
\* hold, with the empty string.
Deleted(state, newState) ==
    {KeyValue(key, <<>>) : key \in MapKeys(state) \ MapKeys(newState)}

\* The goroutine of one call of Subscribe.  pc is "select", "diff" (in the
\* loops), "f" (in the callback) or "returned"; tick tells that ticker.C
\* holds a tick, done that ctx is cancelled.  Four fields are history:
\* had and prev, the last snapshot that succeeded before the one at hand,
\* missed, that a snapshot failed since the last one that succeeded, and
\* kept, the entries the directory has held unchanged since Subscribe.
Goroutine(s, dir) ==
    [pc |-> "select", state |-> s.mp, initialErr |-> s.err, newState |-> {},
     calls |-> <<>>, tick |-> FALSE, done |-> FALSE,
     had |-> s.err = Nil, prev |-> s.mp, missed |-> FALSE, kept |-> Content(dir)]

Running == 1..Len(shadow)

Range(s) == {s[i] : i \in 1..Len(s)}

\* The calls the loops have yet to make: the second loop starts when the
\* first is over; a map is ranged over in any order.
Pending(r) ==
    IF Added(r.state, r.newState) \ Range(r.calls) # {}
    THEN Added(r.state, r.newState) \ Range(r.calls)
    ELSE Deleted(r.state, r.newState) \ Range(r.calls)

\* The end of the case ticker.C: state = newState.
EndTick(r) ==
    [r EXCEPT !.pc = "select", !.state = r.newState, !.newState = {}, !.calls = <<>>,
              !.prev = r.newState, !.missed = FALSE]

\* k.Subscribe(ctx, f): the ticker, the first snapshot, the goroutine.
Subscribe ==
    /\ pc = "subscriber"
    /\ Len(args) > 0
    /\ args' = Tail(args)
    /\ \E ok \in BOOLEAN : shadow' = Append(shadow, Goroutine(Snapshot(fs, ok), fs))
    /\ UNCHANGED <<ld, cfgNil, rules, fs, cfg0, cfg, path, pc, idx, cmd, err, exit, trace>>

\* case <-ctx.Done(): return
CtxDone_Ignored(g) ==
    /\ shadow[g].pc = "select"
    /\ shadow[g].done
    /\ shadow' = [shadow EXCEPT ![g].tick = FALSE]
    /\ UNCHANGED <<ld, cfgNil, rules, fs, cfg0, cfg, path, pc, idx, cmd, args, err, exit, trace>>

CtxDone(g) ==
    /\ shadow[g].pc = "select"
    /\ shadow[g].done
    /\ shadow' = [shadow EXCEPT ![g].pc = "returned"]
    /\ UNCHANGED <<ld, cfgNil, rules, fs, cfg0, cfg, path, pc, idx, cmd, args, err, exit, trace>>

\* case <-ticker.C, up to the first call of f or, without one, to its end.
Receive(g) ==
    LET r == shadow[g] IN
        /\ r.pc = "select"
        /\ r.tick
        /\ \E ok \in BOOLEAN :
           LET s == Snapshot(fs, ok) IN
           shadow' = [shadow EXCEPT ![g] =
               IF s.err # Nil THEN [r EXCEPT !.tick = FALSE, !.missed = TRUE]
               ELSE IF r.initialErr # Nil
               THEN [r EXCEPT !.tick = FALSE, !.initialErr = Nil,
                              !.had = TRUE, !.prev = s.mp, !.missed = FALSE]
               ELSE IF Added(r.state, s.mp) \cup Deleted(r.state, s.mp) = {}
               THEN EndTick([r EXCEPT !.tick = FALSE, !.newState = s.mp])
               ELSE [r EXCEPT !.tick = FALSE, !.newState = s.mp, !.pc = "diff"]]
        /\ UNCHANGED <<ld, cfgNil, rules, fs, cfg0, cfg, path, pc, idx, cmd, args, err, exit, trace>>

\* f(key, value) is called, in either loop.
Invoke(g) ==
    LET r == shadow[g]
    IN  /\ r.pc = "diff"
        /\ \E c \in Pending(r) :
               shadow' = [shadow EXCEPT ![g] = [r EXCEPT !.pc = "f", !.calls = Append(r.calls, c)]]
        /\ UNCHANGED <<ld, cfgNil, rules, fs, cfg0, cfg, path, pc, idx, cmd, args, err, exit, trace>>

\* f returns: the loops go on, or are over.
Return(g) ==
    LET r == shadow[g]
    IN  /\ r.pc = "f"
        /\ shadow' = [shadow EXCEPT ![g] =
               IF Pending(r) = {} THEN EndTick(r) ELSE [r EXCEPT !.pc = "diff"]]
        /\ UNCHANGED <<ld, cfgNil, rules, fs, cfg0, cfg, path, pc, idx, cmd, args, err, exit, trace>>

\* The ticker sends a tick; it drops the tick when ticker.C holds one.
Tick(g) ==
    /\ ~shadow[g].tick
    /\ shadow' = [shadow EXCEPT ![g].tick = TRUE]
    /\ UNCHANGED <<ld, cfgNil, rules, fs, cfg0, cfg, path, pc, idx, cmd, args, err, exit, trace>>

\* The caller cancels ctx.
Cancel(g) ==
    /\ ~shadow[g].done
    /\ shadow' = [shadow EXCEPT ![g].done = TRUE]
    /\ UNCHANGED <<ld, cfgNil, rules, fs, cfg0, cfg, path, pc, idx, cmd, args, err, exit, trace>>

\* The directories one change away: a file is written or removed.
Changes(dir) ==
    ({Directory({f \in dir.w : f.name # n} \cup {File(n, d)}) : n \in FileNames, d \in FileData}
         \cup {Directory({f \in dir.w : f.name # n}) : n \in FileNames}) \ {dir}

\* The volume is changed.
Change ==
    /\ pc = "subscriber"
    /\ idx <= MaxChanges
    /\ fs' \in Changes(fs)
    /\ idx' = idx + 1
    /\ shadow' = [g \in Running |-> [shadow[g] EXCEPT !.kept = @ \cap Content(fs')]]
    /\ UNCHANGED <<ld, cfgNil, rules, cfg0, cfg, path, pc, cmd, args, err, exit, trace>>

\* The steps of the goroutines and of what surrounds them, for any call of
\* Subscribe made so far.
SomeTick == \E g \in Running : Tick(g)
SomeCancel == \E g \in Running : Cancel(g)
SomeCtxDone == \E g \in Running : CtxDone(g)
SomeReceive == \E g \in Running : Receive(g)
SomeInvoke == \E g \in Running : Invoke(g)
SomeReturn == \E g \in Running : Return(g)

NextSubscriber ==
    \/ Subscribe
    \/ Change
    \/ SomeTick
    \/ SomeCancel
    \/ SomeCtxDone
    \/ SomeReceive
    \/ SomeInvoke
    \/ SomeReturn

StrSubscribe == <<"S", "u", "b", "s", "c", "r", "i", "b", "e">>

\* The program calls Subscribe n times on the subscriber, and the directory
\* is changed from the c-th change on.
StartSubscriber(n, c) ==
    /\ ld = Loader(StrTest, <<>>, <<>>, <<>>)
    /\ cfgNil = FALSE
    /\ rules = {}
    /\ fs \in {Directory({}), Directory({File("A", <<"1", "\n">>)})}
    /\ cfg0 = ZeroValue
    /\ cfg = ZeroValue
    /\ shadow = <<>>
    /\ path = <<>>
    /\ pc = "subscriber"
    /\ idx = c
    /\ cmd = <<>>
    /\ args = [i \in 1..n |-> StrSubscribe]
    /\ err = Nil
    /\ exit = "none"
    /\ trace = <<>>

\* One call of Subscribe and a directory that changes MaxChanges times.
InitSubscriber == StartSubscriber(1, 1)

SpecSubscriber == InitSubscriber /\ [][NextSubscriber]_vars

\* A call of Subscribe for each of Goroutines, and one change.
InitSubscribers == StartSubscriber(Cardinality(Goroutines), MaxChanges)

SpecSubscribers == InitSubscribers /\ [][NextSubscriber]_vars

\* Callbacks return, the loops go on, and a select that is time and again
\* ready for ctx.Done() takes that case in the end.
FairSubscriber ==
    \A g \in Goroutines : /\ WF_vars(g \in Running /\ Invoke(g))
                          /\ WF_vars(g \in Running /\ Return(g))
                          /\ SF_vars(g \in Running /\ CtxDone(g))

SpecSubscriberFair == SpecSubscriber /\ FairSubscriber

-----------------------------------------------------------------------------
(* What the claims speak of. *)


Returned == pc \in {"done", "exited"}

Succeeded == Returned /\ err = Nil

LoadCalls == SelectSeq(trace, LAMBDA c : c.op = "Load")

ParseCalls == SelectSeq(trace, LAMBDA c : c.op = "Parse")

Called(op, i) == \E k \in 1..Len(trace) : trace[k] = Call(op, i)

(* What the arguments alone set: the parse of ld.args on a struct that     *)
(* holds v everywhere and on sources without a path.  A flag sets a field  *)
(* when the field comes out the same from two different structs.           *)
FlagsOn(v) == Parse(newFlagSet(SchemaOf(cfgNil), ld.sources), StructOf(v),
                    [i \in 1..Len(ld.sources) |-> <<>>], ld.args)

FlagSets(id) == FlagsOn(0).sh[id] = FlagsOn(-1).sh[id]

FlagValue(id) == FlagsOn(0).sh[id]

\* The path the arguments give the file source i.
FlagPath(i) == FlagsOn(0).path[i]

\* What source i writes when it is a function or a file source.
Written(i) ==
    LET src == ld.sources[i] IN
    IF src.kind = "func" THEN src.w
    ELSE IF src.kind = "file" /\ FlagPath(i) = FilePath /\ fs.kind = "yaml" THEN fs.w
    ELSE <<>>

Writers(id) == {i \in 1..Len(ld.sources) : id \in DOMAIN Written(i)}

Max(S) == CHOOSE x \in S : \A y \in S : y <= x

\* C1: after a successful Load every field that a flag of Args sets holds the
\* value decoded from that flag, whatever the sources are and wrote.
C1_FlagsWin ==
    Succeeded => \A id \in DOMAIN cfg : FlagSets(id) => cfg[id] = FlagValue(id)

\* A successful Load where a flag set A and a source wrote another value to A.
C1_Witness ==
    /\ Succeeded
    /\ Len(ld.sources) = 2
    /\ FlagSets("A")
    /\ \E i \in Writers("A") : Written(i)["A"] # FlagValue("A")
    /\ Writers("B") # {}

\* C3: the sources are loaded one at a time in the order of Loader.Sources, and
\* after a successful Load a field that no flag sets and that sources wrote
\* holds the value written by the last of them in the list.
C3_SourcesInOrder ==
    /\ \A k \in 1..Len(LoadCalls) : LoadCalls[k].i = k
    /\ Succeeded =>
           \A id \in DOMAIN cfg :
               (~FlagSets(id) /\ Writers(id) # {})
                   => cfg[id] = Written(Max(Writers(id)))[id]

\* A successful Load where two sources wrote different values to A and no flag did.
C3_Witness ==
    /\ Succeeded
    /\ ~FlagSets("A")
    /\ Cardinality(Writers("A")) = 2
    /\ \E i, j \in Writers("A") : Written(i)["A"] # Written(j)["A"]
    /\ Len(LoadCalls) = 2

\* The error the Load of source i returns; it does not depend on the struct.
SourceError(i) ==
    SourceLoad(ld.sources[i], i, SchemaOf(cfgNil), ZeroStruct(SchemaOf(cfgNil)),
               path[i], FileAt(path[i])).err

\* C4: when the Load of a source returns an error, Load has returned with that
\* error, no source later in the list was invoked, and the arguments were
\* parsed once only.
C4_SourceErrorStops ==
    \A i \in 1..Len(ld.sources) :
        (Called("Load", i) /\ SourceError(i) # Nil)
            => /\ Returned
               /\ err = SourceError(i)
               /\ \A j \in (i + 1)..Len(ld.sources) : ~Called("Load", j)
               /\ Len(ParseCalls) = 1

\* The first of two sources failed after it wrote to the struct.
C4_Witness ==
    /\ Returned
    /\ Len(ld.sources) = 2
    /\ Called("Load", 1)
    /\ SourceError(1) # Nil
    /\ shadow # makeValue(SchemaOf(cfgNil), cfg0)

\* The loop is at a file source that has no path.
AtEmptyFileSource ==
    /\ pc = "sources"
    /\ idx <= Len(ld.sources)
    /\ ld.sources[idx].kind = "file"
    /\ path[idx] = <<>>

\* C6: the Load of a file source whose path is empty returns nil, calls
\* neither readFile nor unmarshal, and leaves the struct as it was.
C6_EmptyPathNoOp ==
    [][AtEmptyFileSource =>
           /\ err' = Nil
           /\ pc' = "sources"
           /\ shadow' = shadow
           /\ trace' = Append(trace, Call("Load", idx))]_vars

\* A file source without path was loaded after another source wrote to the struct.
C6_Witness ==
    /\ Len(ld.sources) = 2
    /\ ld.sources[2].kind = "file"
    /\ path[2] = <<>>
    /\ Called("Load", 2)
    /\ shadow # makeValue(SchemaOf(cfgNil), cfg0)
    /\ Len(trace) = 3

\* The name of field id in flags and keys, and whether it has one.
ConfName(id) ==
    LET f == CHOOSE g \in {Schema[k] : k \in 1..Len(Schema)} : g.id = id
    IN  IF Len(f.tag) # 0 THEN f.tag ELSE f.name

Exposed(id) == ConfName(id) # <<"-">>

\* The key of field id in the environment of program ld.name.
EnvName(id) == ToUpper(ld.name \o <<"_">> \o ConfName(id))

\* The part of an entry before its first equals sign.
KeyOf(kv) == SubSeq(kv, 1, IndexByte(kv, "=") - 1)

Environ == LET i == CHOOSE j \in 1..Len(ld.sources) : ld.sources[j].kind = "env"
           IN  ld.sources[i].env

EnvMatches(id) ==
    {m \in 1..Len(Environ) :
        /\ Exposed(id)
        /\ IndexByte(Environ[m], "=") # 0
        /\ KeyOf(Environ[m]) = EnvName(id)}

Min(S) == CHOOSE x \in S : \A y \in S : x <= y

EnvValue(id) ==
    LET kv == Environ[Min(EnvMatches(id))]
    IN  Decoded(KindOf(Schema, id), Drop(kv, IndexByte(kv, "=")))

FileWriters(id) == {i \in Writers(id) : ld.sources[i].kind = "file"}

\* C2: after a successful Load with the default loader a field holds the value
\* of its flag if Args has one, else of its environment entry if there is one,
\* else of the configuration file if it sets the field, else its default.
C2_DefaultPrecedence ==
    Succeeded =>
        \A id \in DOMAIN cfg :
            cfg[id] = IF FlagSets(id) THEN FlagValue(id)
                      ELSE IF EnvMatches(id) # {} THEN EnvValue(id)
                      ELSE IF FileWriters(id) # {} THEN fs.w[id]
                      ELSE cfg0[id]

\* A flag over another environment value in A, the environment over another
\* value of the file in B, the default in I.
C2_Witness ==
    /\ Succeeded
    /\ FlagSets("A") /\ EnvMatches("A") # {} /\ EnvValue("A") # FlagValue("A")
    /\ ~FlagSets("B") /\ EnvMatches("B") # {} /\ FileWriters("B") # {}
    /\ EnvValue("B") # fs.w["B"] /\ fs.w["B"] # cfg0["B"]
    /\ cfg["I"] = cfg0["I"] /\ cfg0["I"] # 0

\* The loop is at an environment source.
AtEnvSource ==
    /\ pc = "sources"
    /\ idx <= Len(ld.sources)
    /\ ld.sources[idx].kind = "env"

\* An entry whose key is the key of a field.
Matched(kv) == \E id \in FieldIds(Schema) :
                   /\ Exposed(id)
                   /\ IndexByte(kv, "=") # 0
                   /\ KeyOf(kv) = EnvName(id)

\* C7: the entries of the environment whose KEY= part is the key of no field
\* are ignored: the Load of the environment source returns the error and
\* leaves the struct it would without them.
C7_UnmatchedIgnored ==
    [][AtEnvSource =>
           LET src == ld.sources[idx]
               r   == envLoad([src EXCEPT !.env = SelectSeq(src.env, Matched)],
                              SchemaOf(cfgNil), shadow)
           IN  shadow' = r.sh /\ err' = r.err]_vars

\* The environment source was loaded with success on an entry that matches
\* no key before an entry that matches one.
C7_Witness ==
    /\ pc = "sources"
    /\ \E i \in 1..Len(ld.sources) :
           /\ ld.sources[i].kind = "env"
           /\ Called("Load", i)
           /\ Len(ld.sources[i].env) = 2
           /\ ~Matched(ld.sources[i].env[1])
           /\ Matched(ld.sources[i].env[2])
    /\ shadow # makeValue(SchemaOf(cfgNil), cfg0)

\* The parses and the loads of the sources, in the order they happened.
StepCalls == SelectSeq(trace, LAMBDA c : c.op \in {"Parse", "Load"})

ExpectedSteps ==
    <<Call("Parse", 0)>> \o [i \in 1..Len(ld.sources) |-> Call("Load", i)]
        \o <<Call("Parse", 0)>>

\* Load returns right after the command check when it is given no struct.
ReturnsAtCommand == cfgNil /\ Len(ld.commands) # 0

\* The file source read the file its flag names.
ReadsFlaggedFile ==
    \A i \in 1..Len(ld.sources) :
        (Called("Load", i) /\ ld.sources[i].kind = "file" /\ FlagPath(i) # <<>>)
            => Called("readFile", i)

\* C5 as stated: in every successful Load the steps are the first parse, the
\* Load of each source once and in order, and the second parse.
C5_Original ==
    /\ Succeeded => StepCalls = ExpectedSteps
    /\ Len(LoadCalls) # 0 => Head(StepCalls) = Call("Parse", 0)
    /\ ReadsFlaggedFile

\* C5, amended: in every successful Load that goes past the command check
\* (Commands is empty or cfg is not nil) the steps are the first parse, the
\* Load of each source once and in order, and the second parse; a source is
\* loaded after the first parse only, so that the file source reads the file
\* its flag names.
C5_StepsInOrder ==
    /\ (Succeeded /\ ~ReturnsAtCommand) => StepCalls = ExpectedSteps
    /\ Len(LoadCalls) # 0 => Head(StepCalls) = Call("Parse", 0)
    /\ ReadsFlaggedFile

\* A successful Load with two sources whose file source read the file of the flag.
C5_Witness ==
    /\ Succeeded
    /\ ~ReturnsAtCommand
    /\ Len(ld.sources) = 2
    /\ StepCalls = ExpectedSteps
    /\ \E i \in 1..2 : Called("readFile", i) /\ FlagPath(i) = FilePath

\* The name of the flag an argument spells: one or two dashes, then the name
\* up to an equals sign.
FlagNameOf(a) ==
    LET body == Drop(a, IF a[2] = "-" THEN 2 ELSE 1)
        eq   == IndexByte(body, "=")
    IN  IF eq = 0 THEN body ELSE SubSeq(body, 1, eq - 1)

IsFlagArg(a) == Len(a) >= 2 /\ a[1] = "-" /\ a # <<"-", "-">>

Defined(name) ==
    Lookup(newFlagSet(SchemaOf(cfgNil), ld.sources), name) # NoFlag

NamesUndefinedFlag(a) == IsFlagArg(a) /\ ~Defined(FlagNameOf(a))

AsksHelp(a) == IsFlagArg(a) /\ FlagNameOf(a) \in {StrH, StrHelp}

FailingExit ==
    /\ err # Nil
    /\ err # ErrHelp
    /\ Len(LoadCalls) = 0
    /\ pc = "exited" => exit = "exit1"

\* C8 as stated: whenever Args holds an argument that names a flag that is not
\* defined, Load returns an error that is not flag.ErrHelp, no source is
\* loaded and LoadWith exits with the failing status.
C8_Original ==
    (Returned /\ \E k \in 1..Len(ld.args) : NamesUndefinedFlag(ld.args[k]))
        => FailingExit

\* C8, amended: when the parse of Args stops at an argument it reads as a
\* flag whose name is not defined and is neither h nor help, and Load is not
\* the Load of a nil cfg that returns at the command check, Load returns an
\* error that is not flag.ErrHelp, no source is loaded and LoadWith exits with
\* the failing status.
C8_UndefinedFlagFails ==
    (Returned /\ ~ReturnsAtCommand
        /\ FlagsOn(0).err.type = "flag provided but not defined")
        => FailingExit

\* LoadWith exited with failure on an undefined flag that follows a flag that
\* was parsed, with sources that were not loaded.
C8_Witness ==
    /\ pc = "exited"
    /\ exit = "exit1"
    /\ Len(ld.sources) = 2
    /\ Len(ld.args) = 2
    /\ FlagsOn(0).err.type = "flag provided but not defined"
    /\ NamesUndefinedFlag(ld.args[2])
    /\ trace = <<Call("Parse", 0)>>

HelpExit ==
    /\ err = ErrHelp
    /\ Len(LoadCalls) = 0
    /\ cfg = cfg0
    /\ pc = "exited" => exit = "exit0"

FirstNonFlag(a) ==
    IF \E k \in 1..Len(a) : a[k][1] # "-"
    THEN CHOOSE k \in 1..Len(a) : a[k][1] # "-" /\ \A j \in 1..(k - 1) : a[j][1] = "-"
    ELSE 0

\* C10 as stated: with Commands, Load on empty Args returns "missing command",
\* Load on Args whose first non-flag argument X is no command returns
\* "unknown command: X", and it does so before it parses a flag or loads a
\* source.
C10_CommandErrors ==
    (Returned /\ Len(ld.commands) # 0)
        => /\ Len(ld.args) = 0
                => err = Error("missing command", <<>>) /\ trace = <<>>
           /\ LET k == FirstNonFlag(ld.args) IN
                  (k # 0 /\ ~IsCommand(ld.commands, ld.args[k]))
                      => /\ err = Error("unknown command", ld.args[k])
                         /\ trace = <<>>

\* Load returned no error on an unknown command after it loaded a source.
C10_Witness ==
    /\ Returned
    /\ Len(ld.commands) # 0
    /\ ld.args = <<StrX>>
    /\ err = Nil
    /\ Len(LoadCalls) # 0
    /\ cfg # cfg0

\* The arguments that follow the flags the parse of ld.args reads; when Load
\* is given no struct and returns at the command check, it parses nothing.
Leftover == IF ReturnsAtCommand THEN ld.args ELSE FlagsOn(0).rest

IsSuffix(s, t) == Len(s) <= Len(t) /\ s = SubSeq(t, Len(t) - Len(s) + 1, Len(t))

EnvOf == IF \E i \in 1..Len(ld.sources) : ld.sources[i].kind = "env"
         THEN Environ ELSE <<>>

\* The point is given by the flags, leaf by leaf in either order or as a whole.
ArgsGive(a, b) ==
    ld.args \in {LeafArgs(a, b), <<LeafArgs(a, b)[2], LeafArgs(a, b)[1]>>, WholeArgs(a, b)}

EnvGives(a, b) ==
    EnvOf \in {LeafEnv(a, b), <<LeafEnv(a, b)[2], LeafEnv(a, b)[1]>>, WholeEnv(a, b)}

\* C12: a Load whose flags set the leaves of P one by one and a Load whose
\* flag sets P as a whole from the structured text succeed with the same
\* struct, P pointing to the point of those leaves, whether P was nil or not
\* before; so do the Loads whose environment gives the leaves or the whole.
C12_LeavesOrWhole ==
    Returned =>
        \A a, b \in {1, MaxVal} :
            ((ArgsGive(a, b) \/ (ld.args = <<>> /\ EnvGives(a, b)))
                 /\ "P" \in DOMAIN cfg0)
                => err = Nil /\ cfg = PointAt(a, b)

\* The leaves from the flags and another whole point from the environment,
\* into a struct whose pointer was nil.
C12_Witness ==
    /\ Succeeded
    /\ cfg0 = PointNil
    /\ ld.args = LeafArgs(MaxVal, 1)
    /\ EnvOf = WholeEnv(1, MaxVal)
    /\ cfg = PointAt(MaxVal, 1)

\* The pointers of the struct that the scan of its fields reaches.
Reached(schema) ==
    {schema[k].id : k \in {j \in 1..Len(schema) :
                              schema[j].kind = "ptr" /\ schema[j].tag # <<"-">>}}

RECURSIVE Emptied(_)
Emptied(v) ==
    Value(v.t, v.nil /\ v.t.k \notin {"map", "slice"}, v.n, [i \in 1..Len(v.elems) |-> Emptied(v.elems[i])])

\* The nil maps and nil slices in value v.
RECURSIVE HasNil(_)
HasNil(v) == (v.nil /\ v.t.k \in {"map", "slice"}) \/ \E i \in 1..Len(v.elems) : HasNil(v.elems[i])

\* Type t and the types it is made of have exported fields only.
RECURSIVE AllExported(_)
AllExported(t) == t.exp /\ \A i \in 1..Len(t.elems) : AllExported(t.elems[i])

Entries(e) == IF Len(e.arg) = 0 THEN <<>> ELSE Split(e.arg, ";")

EntryPath(it) == ItemKey(it)

EntryReason(it) == ItemValue(it)

\* The Go name of the field of the struct with conf-tag path p.
GoName(p) == Schema[CHOOSE i \in 1..Len(Schema) : ConfName(Schema[i].id) = p].name

\* The fields of struct v that break their rule.
Failing(v) == {id \in rules : v[id] = 0}

\* Error e lists every failing field of v once, with its path and reason.
Composite(v, e) ==
    /\ e.type = "errorList"
    /\ Len(Entries(e)) = Cardinality(Failing(v))
    /\ {EntryPath(Entries(e)[i]) : i \in 1..Len(Entries(e))} = {ConfName(id) : id \in Failing(v)}
    /\ \A i \in 1..Len(Entries(e)) : EntryReason(Entries(e)[i]) = StrZeroValue

\* C14 as stated: when the merge succeeds and validation rules fail, Load
\* returns one composite error that lists every failing field with its
\* conf-tag path and its reason, and the entries are sorted by that path.
C14_Original ==
    [][(pc = "copy" /\ Failing(cfg') # {})
           => /\ Composite(cfg', err')
              /\ \A i, j \in 1..Len(Entries(err')) :
                     i < j => Less(EntryPath(Entries(err')[i]), EntryPath(Entries(err')[j]))]_vars

\* C14: when the merge succeeds and validation rules fail, Load returns
\* one composite error that lists every failing field with its conf-tag path
\* and its reason, and the entries are in the order of the Go names of the
\* fields.
C14_ValidationErrors ==
    [][(pc = "copy" /\ Failing(cfg') # {})
           => /\ Composite(cfg', err')
              /\ \A i, j \in 1..Len(Entries(err')) :
                     i < j => Less(GoName(EntryPath(Entries(err')[i])),
                                   GoName(EntryPath(Entries(err')[j])))]_vars

\* Load returned the composite error of two failing fields whose paths are
\* not in the order of their Go names.
C14_Witness ==
    /\ pc = "done"
    /\ err.type = "errorList"
    /\ Len(Entries(err)) = 2
    /\ Less(EntryPath(Entries(err)[2]), EntryPath(Entries(err)[1]))
    /\ Less(GoName(EntryPath(Entries(err)[1])), GoName(EntryPath(Entries(err)[2])))


\* C16: snakecaseUpper is idempotent: applied to a key it produced from a
\* name of letters, digits, underscores and dashes it returns that key;
\* HelloWorld gives HELLO_WORLD and HELLO_WORLD gives HELLO_WORLD.
C16_Idempotent ==
    /\ idx = 3 => cfg = shadow
    /\ (idx >= 2 /\ cfg0 \in {StrHelloWorld, StrHELLO_WORLD}) => cfg = StrHELLO_WORLD

\* The key of HelloWorld, computed twice.
C16_Witness == idx = 3 /\ cfg0 = StrHelloWorld /\ cfg = StrHELLO_WORLD /\ shadow = StrHELLO_WORLD


\* The fields of struct type t that are embedded as they should: anonymous
\* structs tagged "_".
Embedded(t) == {i \in 1..Len(t.elems) : t.elems[i].tag = "_" /\ t.elems[i].anon /\ t.elems[i].elems[1].k = "struct"}

\* The fields of struct type t tagged "_" that are no anonymous struct.
Misused(t) == {i \in 1..Len(t.elems) : t.elems[i].tag = "_" /\ i \notin Embedded(t)}

\* Every struct in struct type t is embedded as it should, to any depth.
RECURSIVE Flattened(_)
Flattened(t) ==
    /\ Misused(t) = {}
    /\ \A i \in 1..Len(t.elems) : t.elems[i].elems[1].k = "struct" =>
           i \in Embedded(t) /\ Flattened(t.elems[i].elems[1])

\* The leaf fields of struct type t and of the structs embedded in it, in
\* the order of their declaration.
RECURSIVE Promoted(_, _)
Promoted(t, i) ==
    IF i > Len(t.elems) THEN <<>>
    ELSE (IF i \in Embedded(t) THEN Promoted(t.elems[i].elems[1], 1) ELSE <<t.elems[i].name>>)
             \o Promoted(t, i + 1)

Distinct(names) == \A i, j \in 1..Len(names) : names[i] = names[j] => i = j

ItemNames(m) == [i \in 1..Len(m.items) |-> m.items[i].name]

\* C17: the Map of a struct whose structs are all embedded with "_", to any
\* depth, has exactly the promoted leaf fields as its items, each a Scalar,
\* and no item for an embedded struct; for Matroska these are SmallestOne,
\* SmallOne, MediumOne and LargeOne.
C17_Flattened ==
    /\ (pc = "node" /\ Flattened(cfg0)) =>
           /\ shadow.kind = "map"
           /\ ItemNames(shadow) = Promoted(cfg0, 1)
           /\ \A i \in 1..Len(shadow.items) :
                  /\ Kind(shadow.items[i].value) = "scalar"
                  /\ \E k \in 1..Len(LeafNames) : shadow.items[i].name \in {LeafNames[k], "Stuff"}
    /\ (pc # "type" /\ cfg0 = Matroska) =>
           /\ pc = "node"
           /\ ItemNames(shadow) = <<"SmallestOne", "SmallOne", "MediumOne", "LargeOne">>

\* The Map of Matroska, three structs deep.
C17_Witness == pc = "node" /\ cfg0 = Matroska /\ Len(shadow.items) = 4


\* The struct fields of struct type t that are not embedded.
Nested(t) == {i \in 1..Len(t.elems) : t.elems[i].elems[1].k = "struct" /\ t.elems[i].tag # "_"}

\* Struct type t, or a struct in it, has a field tagged "_" that is no
\* anonymous struct.
RECURSIVE Misuses(_)
Misuses(t) ==
    \/ Misused(t) # {}
    \/ \E i \in Embedded(t) \cup Nested(t) : Misuses(t.elems[i].elems[1])

\* Two promoted fields of struct type t, or of a struct in it, resolve to
\* the same name.
RECURSIVE Collides(_)
Collides(t) ==
    \/ ~Distinct(Promoted(t, 1))
    \/ \E i \in Embedded(t) \cup Nested(t) : Collides(t.elems[i].elems[1])

\* The names of the struct types in struct type t, t's among them.
RECURSIVE StructNames(_)
StructNames(t) ==
    {t.name} \cup UNION {StructNames(t.elems[i].elems[1]) : i \in Embedded(t) \cup Nested(t)}

\* The names struct type t and the structs in it give their fields.
RECURSIVE FieldNames(_)
FieldNames(t) ==
    {t.elems[i].name : i \in 1..Len(t.elems)}
        \cup UNION {FieldNames(t.elems[i].elems[1]) : i \in Embedded(t) \cup Nested(t)}

\* No map in node n has two items of one name.
RECURSIVE UniqueNames(_)
UniqueNames(n) ==
    /\ n.kind = "map" => Distinct(ItemNames(n))
    /\ \A i \in 1..Len(n.items) :
           UniqueNames(IF n.kind = "map" THEN n.items[i].value ELSE n.items[i])

\* C18: building the Map of a struct panics, with a message of the struct
\* type and the path, when two promoted fields resolve to the same name (the
\* message has the name and says duplicate) and when the field tagged "_" is
\* a primitive or a named struct field; no Map with two items of one name is
\* returned.
C18_InvalidEmbedding ==
    /\ (pc # "type" /\ (Collides(cfg0) \/ Misuses(cfg0))) => pc = "panic"
    /\ pc = "panic" =>
           /\ shadow.v.type \in StructNames(cfg0)
           /\ Len(shadow.v.path) >= 2
           /\ shadow.v.path[1] = shadow.v.type
           /\ \A k \in 2..Len(shadow.v.path) : shadow.v.path[k] \in FieldNames(cfg0)
           /\ shadow.v.kind = "duplicate" =>
                  Collides(cfg0) /\ shadow.v.name = shadow.v.path[Len(shadow.v.path)]
           /\ shadow.v.kind = "embed" => Misuses(cfg0) /\ shadow.v.name = "_"
    /\ pc = "node" => UniqueNames(shadow)
    /\ (pc # "type" /\ cfg0 = ConflictingName) =>
           shadow = PanicNode(Message("duplicate", "ConflictingName", <<"ConflictingName", "Thing2", "Stuff">>, "Stuff"))
    /\ (pc # "type" /\ cfg0 = EmbedPrimitive) =>
           shadow = PanicNode(Message("embed", "EmbedPrimitive", <<"EmbedPrimitive", "Str">>, "_"))
    /\ (pc # "type" /\ cfg0 = EmbedNamedStruct) =>
           shadow = PanicNode(Message("embed", "EmbedNamedStruct", <<"EmbedNamedStruct", "Thing">>, "_"))

\* The panic of the struct that embeds two structs with a field Stuff each.
C18_Witness ==
    /\ pc = "panic"
    /\ cfg0 = ConflictingName
    /\ shadow.v.kind = "duplicate"
    /\ shadow.v.name = "Stuff"


\* C19: EqualNode is reflexive and symmetric over nil, scalars, arrays and
\* maps, false when exactly one of the two nodes is nil, and false for two
\* nodes of different kinds or of different lengths.
C19_EqualNode ==
    pc = "compared" =>
        /\ shadow.self
        /\ shadow.forth = shadow.back
        /\ ((cfg0 = NilNode) # (cfg = NilNode)) => ~shadow.forth
        /\ Kind(cfg0) # Kind(cfg) => ~shadow.forth
        /\ Len(cfg0.items) # Len(cfg.items) => ~shadow.forth

\* Two maps of the same two items in different orders compared equal, and
\* a map was compared with a map of another length.
C19_Witness ==
    /\ pc = "compared"
    /\ cfg0 = Map(<<MapItem("A", Scalar(1)), MapItem("B", NilNode)>>)
    /\ cfg = Map(<<MapItem("B", NilNode), MapItem("A", Scalar(1))>>)
    /\ shadow.forth


AtConfigMapSource ==
    /\ pc = "sources"
    /\ idx <= Len(ld.sources)
    /\ ld.sources[idx].kind = "configmap"

\* The directory of source src has an entry that can be read, whose name
\* gives the key of a field, and whose content cannot be decoded into it.
Undecodable(src) ==
    /\ ~src.fail
    /\ \A m \in 1..Len(src.env) : ~Hidden(src.env[m]) => IndexByte(src.env[m], "=") # 0
    /\ \E id \in FieldIds(Schema) :
           /\ Exposed(id)
           /\ LET key == IF Len(src.prefix) = 0 THEN ToUpper(ConfName(id))
                         ELSE ToUpper(src.prefix \o <<"_">> \o ConfName(id))
                  m == VarAt(Visible(src.env), key)
              IN  m # 0 /\ ~Decodes(KindOf(Schema, id), EntryData(Visible(src.env)[m]))

\* C20: when the content of a directory entry that matches a field cannot
\* be decoded into that field, the Load of the config-map source returns
\* the error and Loader.Load fails with it.
C20_DecodeErrorFails ==
    [][(AtConfigMapSource /\ Undecodable(ld.sources[idx])) => (err' # Nil /\ pc' = "done")]_vars

\* Load returned without an error after it loaded a config-map source with
\* an entry for field A that is no number.
C20_Witness ==
    /\ Succeeded
    /\ \E i \in 1..Len(ld.sources) :
           /\ ld.sources[i].kind = "configmap"
           /\ Undecodable(ld.sources[i])
           /\ Called("Load", i)


\* The goroutines of the subscriber that are inside the callback.
InCallback == {g \in Running : shadow[g].pc = "f"}

\* C21: for a given subscriber at most one invocation of the callback is in
\* progress at any time, whatever the ticks and however long a callback runs.
C21_OneCallback == Cardinality(InCallback) <= 1

\* Two calls of Subscribe on the subscriber are both inside the callback.
C21_Witness == InCallback = Goroutines


\* What a tick has to report when old is the last snapshot that succeeded
\* and new the one of the tick: the keys added or changed with their value
\* and the keys removed with the empty string.
Diff(old, new) == Added(old, new) \cup Deleted(old, new)

\* The calls made are those of D, each of them once.
Exactly(calls, D) == Range(calls) = D /\ Len(calls) = Cardinality(D)

\* The step is the end of a tick of goroutine g that called f.
ReturnsLast(g) == shadow[g].pc = "f" /\ shadow'[g].pc = "select"

\* The step takes a tick of goroutine g; its snapshot fails, or succeeds.
Takes(g) == shadow[g].pc = "select" /\ shadow[g].tick /\ ~shadow'[g].tick

Fails(g) == Takes(g) /\ shadow'[g].pc = "select" /\ shadow'[g].missed

Succeeds(g) == Takes(g) /\ ~Fails(g)

\* C22: a tick whose snapshot succeeds calls f once for each key added,
\* changed or removed since the last snapshot that succeeded, and for no
\* other key; a key that the directory has held unchanged since Subscribe
\* is never handed to f.
C22_DiffReported ==
    [][\A g \in Running :
           /\ ReturnsLast(g)
                  => Exactly(shadow[g].calls, Diff(shadow[g].prev, shadow[g].newState))
           /\ (Succeeds(g) /\ shadow[g].had)
                  => (shadow'[g].pc = "diff" <=> Diff(shadow[g].prev, Content(fs)) # {})
           /\ (shadow[g].pc = "diff" /\ shadow'[g].pc = "f")
                  => shadow'[g].calls[Len(shadow'[g].calls)].key \notin MapKeys(shadow[g].kept)]_vars

\* f is called for a key that the directory has held unchanged since
\* Subscribe, after a first snapshot that failed.
C22_Witness ==
    \E g \in Running :
        /\ shadow[g].pc = "f"
        /\ shadow[g].calls[Len(shadow[g].calls)] \in shadow[g].kept
        /\ shadow[g].had
        /\ shadow[g].prev = shadow[g].newState

\* C23: a goroutine that has returned stays so and calls f no more, and once
\* ctx is cancelled the goroutine returns in the end.
C23_Stops ==
    /\ [][\A g \in Running :
              shadow[g].pc = "returned" => shadow'[g].pc = "returned" /\ shadow'[g].calls = <<>>]_vars
    /\ \A g \in Goroutines :
           (g \in Running /\ shadow[g].done) ~> (g \in Running /\ shadow[g].pc = "returned")

\* A goroutine has returned after its context was cancelled inside a
\* callback, with a tick left in the channel of its ticker.
C23_Witness ==
    \E g \in Running :
        /\ shadow[g].pc = "returned"
        /\ shadow[g].done
        /\ shadow[g].tick
        /\ shadow[g].state # {}

\* C24: a tick whose snapshot fails calls f for nothing and keeps the
\* snapshot remembered, and the tick that succeeds after it reports once
\* every change since the last snapshot that succeeded.
C24_FailedTick ==
    [][\A g \in Running :
           /\ Fails(g) => shadow'[g] = [shadow[g] EXCEPT !.tick = FALSE, !.missed = TRUE]
           /\ (ReturnsLast(g) /\ shadow[g].missed)
                  => /\ Diff(shadow[g].prev, shadow[g].newState) \subseteq Range(shadow[g].calls)
                     /\ Len(shadow[g].calls) = Cardinality(Range(shadow[g].calls))
           /\ (Succeeds(g) /\ shadow[g].had /\ shadow[g].missed /\ shadow'[g].pc = "select")
                  => Diff(shadow[g].prev, Content(fs)) = {}]_vars

\* After a snapshot that succeeded and one that failed, a key of the former
\* is gone from the directory, the snapshot the goroutine keeps does not hold
\* it, and the goroutine has the next tick to take.
C24_Witness ==
    \E g \in Running :
        /\ shadow[g].pc = "select"
        /\ shadow[g].tick
        /\ shadow[g].had
        /\ shadow[g].missed
        /\ Deleted(shadow[g].prev, Content(fs)) # {}
        /\ Diff(shadow[g].state, Content(fs)) = {}

\* The fields of struct type t1 are those of t2, one for one and by name.
Mirrored(t1, t2) ==
    /\ Len(t1.elems) = Len(t2.elems)
    /\ \A i \in 1..Len(t1.elems) : t1.elems[i].name = t2.elems[i].name

\* C25: setValue does not panic when it copies between a configuration and
\* the shadow value of its type, unexported fields or not: the field at
\* position i of the one is the field of that name of the other.
C25_SetValueTotal ==
    /\ pc # "panic"
    /\ pc # "value" => Mirrored(makeType(cfg0.t), cfg0.t)

\* makeValue of a configuration with an unexported field before an exported
\* one has panicked.
C25_Witness ==
    /\ pc = "panic"
    /\ shadow = Panic
    /\ cfg0.t = PrivateType
    /\ ~Mirrored(makeType(cfg0.t), cfg0.t)


\* Type t and the types it is made of hold no special type and no field
\* that is not exported, and no tag in them reads conf:.
RECURSIVE IsShadowType(_)
IsShadowType(t) ==
    /\ t.k # "special"
    /\ t.exp
    /\ \A i \in 1..Len(t.raw) : ~HasPrefix(Drop(t.raw, i - 1), StrConfKey)
    /\ \A i \in 1..Len(t.elems) : IsShadowType(t.elems[i])

C26_TagWitness ==
    /\ pc = "shadowed"
    /\ cfg0.k = "struct"
    /\ cfg0.elems[1].raw = <<"c">> \o StrConfKey \o <<"o", "n", "f", ":">>
    /\ shadow # cfg0


\* The wrappers among v and the values it is made of.
RECURSIVE Wrappers(_)
Wrappers(v) ==
    (IF v.t = specialValueType THEN {v} ELSE {}) \cup
    UNION {Wrappers(v.elems[i]) : i \in 1..Len(v.elems)}

\* The values of a special type among v and the values it is made of,
\* those inside a wrapper left out.
RECURSIVE Unwrapped(_)
Unwrapped(v) ==
    IF v.t = specialValueType THEN {}
    ELSE (IF v.t.k = "special" THEN {v} ELSE {}) \cup
         UNION {Unwrapped(v.elems[i]) : i \in 1..Len(v.elems)}

\* C27: no wrapper of the shadow value holds a wrapper, whatever was decoded
\* into it; the shadow value holds its values of special types in wrappers
\* and the configuration holds no wrapper, before and after the copy back.
C27_NoNestedSpecial ==
    /\ \A w \in Wrappers(shadow) : Wrappers(w.elems[1]) = {}
    /\ Unwrapped(shadow) = {}
    /\ Wrappers(cfg) = {}

\* A wrapper was written to twice and copied back, and the shadow value
\* holds three wrappers.
C27_Witness ==
    /\ pc = "copied"
    /\ idx > MaxWrites
    /\ Cardinality(Wrappers(shadow)) >= 3
    /\ shadow.elems[1] # MakeValue(cfg0).elems[1]
    /\ Unwrapped(cfg) # {}


\* The configuration and what it refers to are as they were before the call.
Untouched == cfg = cfg0.cfg /\ \A a \in Addresses(cfg) \cap DOMAIN fs : fs[a] = cfg0.fs[a]

\* C28: when Load returns an error the configuration is what it was before
\* the call; during the merge the configuration is not written to and the
\* shadow value refers to no map, slice or pointer target the configuration
\* refers to.
C28_ErrorKeepsConfig ==
    /\ (pc = "done" /\ err # Nil) => Untouched
    /\ pc = "merge" => Untouched /\ Addresses(shadow) \cap Addresses(cfg) = {}

\* Load returned the error of a source after a value was decoded into the
\* field S, and the map of the configuration holds it.
C28_Witness ==
    /\ pc = "done"
    /\ err = Error("source failed", <<>>)
    /\ idx > 1
    /\ cfg = cfg0.cfg
    /\ CallerAddress.Set \in Addresses(cfg)
    /\ fs[CallerAddress.Set] # cfg0.fs[CallerAddress.Set]


\* What one parse of the arguments gives from the state newFlagSet leaves.
ParsedOnce ==
    Parse(newFlagSet(SchemaOf(cfgNil), ld.sources),
          Allocated(SchemaOf(cfgNil), makeValue(SchemaOf(cfgNil), cfg0)),
          [i \in 1..Len(ld.sources) |-> <<>>], ld.args)

\* C29: without sources load leaves the shadow value, the leftover
\* arguments and the values of the flag sources as one parse of the
\* arguments leaves them, and returns the error one parse returns.
C29_ParseTwice ==
    (Len(ld.sources) = 0 /\ pc \in {"copy", "done"})
        => /\ shadow = ParsedOnce.sh
           /\ path = ParsedOnce.path
           /\ err = ParsedOnce.err
           /\ err = Nil => args = ParsedOnce.rest

\* The slice and the map were set twice each by the arguments and load
\* returned no error.
C29_Witness ==
    /\ pc = "copy"
    /\ "L" \in DOMAIN cfg0
    /\ Len(ld.args) = MaxArgs
    /\ ld.args[1] # ld.args[2]
    /\ \/ \A i \in 1..MaxArgs : HasPrefix(ld.args[i], Flag(<<"L">>))
       \/ \A i \in 1..MaxArgs : HasPrefix(ld.args[i], Flag(<<"M">>))
    /\ shadow # Allocated(TwiceSchema, cfg0)

\* A flag was followed by an argument that is no flag and by a flag.
C29_LeftoverWitness ==
    /\ pc = "copy"
    /\ "L" \in DOMAIN cfg0
    /\ Len(args) = 1
    /\ Len(ld.args) = MaxArgs
    /\ shadow.P
    /\ shadow.Px # cfg0.Px


\* The host of the text is an IP address written as the forms write it: an
\* IPv6 address or an address with a zone stands in brackets before a port,
\* and nothing stands in brackets without a port.
IsAddrHost ==
    /\ cfg0.host \in {StrIPv4, StrIPv6}
    /\ cfg0.port = NoPort => ~cfg0.brackets
    /\ (cfg0.port # NoPort /\ (cfg0.host = StrIPv6 \/ cfg0.zone # <<>>)) => cfg0.brackets

\* The text is a port alone.
IsPortAlone == cfg0.host = <<>> /\ cfg0.zone = <<>> /\ ~cfg0.brackets /\ cfg0.port # NoPort

\* The port of the text is missing, empty or an integer of 0..65535.
IsAddrPort ==
    \/ cfg0.port \in {NoPort, <<>>}
    \/ Atoi(cfg0.port).ok /\ Atoi(cfg0.port).n \in 0..MaxPort

AddrPort == IF cfg0.port \in {NoPort, <<>>} THEN 0 ELSE Atoi(cfg0.port).n

\* C30: decoded into a net.TCPAddr or a net.UDPAddr, an IP with a port, an
\* IP with zone and port, a port alone and an IP alone give the address
\* with the missing part zero; a host that is no IP gives bad IP address,
\* and a port that is no integer of 0..65535 gives bad port number.
C30_NetAddrForms ==
    (pc = "decoded" /\ cfg \in {StrTCPAddr, StrUDPAddr})
        => /\ ((IsAddrHost \/ IsPortAlone) /\ IsAddrPort)
                  => err = Nil /\ shadow = NetAddr(cfg0.host, AddrPort, cfg0.zone)
           /\ cfg0.host = <<"h">> => err = Error("bad IP address", args)
           /\ ((IsAddrHost \/ IsPortAlone) /\ ~IsAddrPort)
                  => err = Error("bad port number", args)

\* The text 1.2.3.4 was decoded into a net.TCPAddr: the error of
\* SplitHostPort came back and the field holds what it held.
C30_Witness ==
    /\ pc = "decoded"
    /\ cfg = StrTCPAddr
    /\ args = StrIPv4
    /\ err = Error("missing port in address", StrIPv4)
    /\ shadow = NetAddr(StrIPv4, 1, <<>>)

=============================================================================
